---- MODULE Spec2Model ----
(***************************************************************************)
(* Verification model of the intelligent-claims-orchestrator business      *)
(* logic: the payout guard and terminal-state writer, the agent response   *)
(* wrapper, the identity resolver, the singleton workflow trigger, the     *)
(* PHI redaction merge and the context assembler's identity check.         *)
(***************************************************************************)
EXTENDS Integers, Sequences, FiniteSets, TLC

\* ------------------------------------------------------------------------
\* Bounds of the model
\* ------------------------------------------------------------------------
MaxDeliveries == 2      \* deliveries of finalization events (payout invocations)
MaxTerminalCalls == 1   \* invocations of the terminal-state handler
MaxParseRetries == 2    \* largest AGENT_PARSE_RETRIES explored
MaxCandidates == 2      \* JSON candidates found in one completion
MaxResolvers == 3       \* concurrent resolve_or_create calls
MaxArrivals == 3        \* documents arriving at the ingestion collector
MaxSpans == 3           \* raw entity spans detected in one text
TextLen == 4            \* length of the text being redacted
MaxExtracts == 2        \* extract objects under one claim's prefix
MaxIndexItems == 1      \* items one ExternalIdIndex query returns
MaxDocs == 2            \* source documents under one claim's prefix
MaxChunks == 2          \* chunks one document's text is split into
MaxWords == 1           \* words in one extract's text
MaxRecords == 2         \* S3 records handled by ingestion
MaxDetections == 2      \* entities the detector reports for one text
MaxPasses == 2          \* times redact_phi is applied in a row
MaxChunkTextLen == 6    \* length of the text being chunked
MaxPieces == 5           \* pieces of one completion text
MaxCallers == 3         \* check_idempotency calls
MaxChunkSize == 4       \* chunk size

\* ------------------------------------------------------------------------
\* Shared values
\* ------------------------------------------------------------------------
NULL == "<null>"        \* Python None / attribute absent from a stored item
MISSING == "<missing>"  \* key absent from an event dictionary

ClaimIds == {"c1"}

\* A value is falsy in Python when it is None, absent or the empty string.
Falsy(v) == v \in {NULL, MISSING, ""}

\* DynamoDB item CLAIM#<id>/META, attribute by attribute.
NoItem ==
    [exists |-> FALSE, status |-> NULL, state |-> NULL, decision |-> NULL,
     updated_at |-> 0, context_bundle_s3_key |-> NULL, payout_date |-> 0,
     final_payout_gbp |-> NULL, sub_state |-> NULL]

VARIABLES
    claims,                 \* claims table: claim id -> META item
    claimsTableConfigured,  \* DatabaseClient: CLAIMS_TABLE is set
    event,                  \* the finalization event on the bus
    pay,                    \* payout handler invocations (deliveries of event)
    transfers,              \* log of bank transfers initiated
    termCalls,              \* terminal-state handler invocations so far
    termResult,             \* outcome of the last terminal-state invocation
    agent_type,             \* agent wrapper: AGENT_TYPE (default AGENT_NAME)
    parse_retries,          \* agent wrapper: AGENT_PARSE_RETRIES
    agent,                  \* agent wrapper: the handler invocation
    mappings,               \* identity resolver: external id -> mapping record
    resolvers,              \* identity resolver: resolve_or_create calls
    triggerRule,            \* ingestion collector: the completeness rule in force
    received,               \* ingestion collector: internal id -> received documents
    executions,             \* workflow starter: execution name -> status
    runs,                   \* workflow starter: runs started per execution name
    arrivals,               \* ingestion collector: document arrivals
    entities_found,         \* redaction: raw absolute spans of all chunks
    redact,                 \* redaction: merge progress and result
    extracts,               \* context assembler: extract objects, in listing order
    execution_start_time,   \* context assembler: the workflow start time passed in
    ExternalIdIndex,        \* claims table GSI: external id -> items returned
    bundles,                \* context assembler: bundle objects written
    asm,                    \* context assembler: the handler invocation
    documents,              \* processing: source documents, in listing order
    clean_extracts,         \* processing: redacted extracts in the clean store
    doc_cache,              \* processing: DOC#<doc_id>/EXTRACT cache items
    proc,                   \* processing: the handler invocation
    ingest,                 \* ingestion: results of the records handled so far
    dec,                    \* decision pipeline: the decision_handler invocation
    fn,                     \* agent wrapper: one call of a parsing or normalizing function
    chunker,                \* chunking: one call of chunk_text or _chunk_text
    threshold,              \* router: HITL_CLAIM_AMOUNT_THRESHOLD
    db_available,           \* router: the claims table accepts writes
    router,                 \* router: two invocations of the handler
    wf,                     \* workflow: one execution of the state machine
    phi,                    \* redaction of a text: passes of redact_phi
    prompt,                  \* prompt assembly: the formatting loop of BedrockAgent.invoke
    override,                \* manual override: one call of manual_override_handler
    idem                    \* idempotency table and the check_idempotency calls made on it

finVars == <<claims, claimsTableConfigured, event, pay, transfers, termCalls, termResult>>
agentVars == <<agent_type, parse_retries, agent>>

idVars == <<mappings, resolvers>>
trigVars == <<triggerRule, received, executions, runs, arrivals>>
redactVars == <<entities_found, redact>>
asmVars == <<extracts, execution_start_time, ExternalIdIndex, bundles, asm>>

procVars == <<documents, clean_extracts, doc_cache, proc>>
ingVars == <<ingest>>
decVars == <<dec>>
phiVars == <<phi>>
fnVars == <<fn>>
chunkVars == <<chunker>>
routerVars == <<threshold, db_available, router>>
wfVars == <<wf>>
promptVars == <<prompt>>
overrideVars == <<override>>
idemVars == <<idem>>
moreVars == <<wfVars, promptVars, overrideVars, idemVars>>
laterVars == <<procVars, ingVars, decVars, phiVars, fnVars, chunkVars, routerVars, moreVars>>

vars == <<finVars, agentVars, idVars, trigVars, redactVars, asmVars, laterVars>>

nonFinVars == <<agentVars, idVars, trigVars, redactVars, asmVars, laterVars>>
nonAgentVars == <<finVars, idVars, trigVars, redactVars, asmVars, laterVars>>
nonIdVars == <<finVars, agentVars, trigVars, redactVars, asmVars, laterVars>>
nonTrigVars == <<finVars, agentVars, idVars, redactVars, asmVars, laterVars>>
nonRedactVars == <<finVars, agentVars, idVars, trigVars, asmVars, laterVars>>
nonAsmVars == <<agentVars, idVars, trigVars, redactVars, laterVars>>
nonProcVars == <<agentVars, idVars, trigVars, redactVars, asmVars, ingVars, decVars, phiVars, fnVars, chunkVars, routerVars, moreVars>>
nonIngVars == <<agentVars, idVars, trigVars, redactVars, asmVars, procVars, decVars, phiVars, fnVars, chunkVars, routerVars, moreVars>>
nonDecVars == <<finVars, agentVars, idVars, trigVars, redactVars, asmVars, procVars, ingVars, phiVars, fnVars, chunkVars, routerVars, moreVars>>
nonFnVars == <<finVars, agentVars, idVars, trigVars, redactVars, asmVars, procVars, ingVars, decVars, phiVars, chunkVars, routerVars, moreVars>>
nonChunkVars == <<finVars, agentVars, idVars, trigVars, redactVars, asmVars, procVars, ingVars, decVars, phiVars, fnVars, routerVars, moreVars>>
nonRouterVars == <<agentVars, idVars, trigVars, redactVars, asmVars, procVars, ingVars, decVars, phiVars, fnVars, chunkVars, moreVars>>
nonWfVars == <<agentVars, idVars, trigVars, redactVars, asmVars, procVars, ingVars, decVars, phiVars, fnVars, chunkVars, routerVars, promptVars, overrideVars, idemVars>>
nonIdemVars == <<finVars, agentVars, idVars, trigVars, redactVars, asmVars, procVars, ingVars, decVars, phiVars, fnVars, chunkVars, routerVars, wfVars, promptVars, overrideVars>>
nonOverrideVars == <<agentVars, idVars, trigVars, redactVars, asmVars, procVars, ingVars, decVars, phiVars, fnVars, chunkVars, routerVars, wfVars, promptVars, idemVars>>
nonPromptVars == <<finVars, agentVars, idVars, trigVars, redactVars, asmVars, procVars, ingVars, decVars, phiVars, fnVars, chunkVars, routerVars, wfVars, overrideVars, idemVars>>
nonPhiVars == <<finVars, agentVars, idVars, trigVars, redactVars, asmVars, procVars, ingVars, decVars, fnVars, chunkVars, routerVars, moreVars>>

\* ------------------------------------------------------------------------
\* Payout handler (src/icpa/payout/handlers.py)
\* ------------------------------------------------------------------------
Deliveries == 1..MaxDeliveries

\* str.upper() over the status strings an event may carry
Upper(s) ==
    CASE s = "approve" -> "APPROVE"
      [] s = "approved" -> "APPROVED"
      [] s = "denied" -> "DENIED"
      [] s = "review" -> "REVIEW"
      [] OTHER -> s

\* detail['status'] as delivered: a string, None, or no key at all
StatusInputs == {"APPROVED", "approve", "DENIED", "NEEDS_REVIEW", MISSING, NULL}

\* detail['payout_gbp'] as delivered; amounts are in pence
PayoutInputs ==
    {[kind |-> "missing", val |-> 0],
     [kind |-> "num", val |-> 99999],
     [kind |-> "num", val |-> 0],
     [kind |-> "str", val |-> 15000],
     [kind |-> "bad", val |-> 0],
     [kind |-> "none", val |-> 0]}

ClaimInputs == ClaimIds \cup {MISSING}

\* detail.get('payout_gbp', 0.0)
PayoutGbp(inp) == IF inp.kind = "missing" THEN [kind |-> "num", val |-> 0] ELSE inp

\* float(payout_gbp): ValueError on a non-numeric string, TypeError on None
FloatOf(inp) ==
    IF inp.kind \in {"num", "str"}
    THEN [ok |-> TRUE, val |-> inp.val]
    ELSE [ok |-> FALSE, val |-> 0]

\* str(float) of an amount held in pence: 0 -> "0.0", 99999 -> "999.99"
AmountStr(a) ==
    LET m == IF a < 0 THEN 0 - a ELSE a
        p == m % 100
        frac == IF p % 10 = 0 THEN ToString(p \div 10)
                ELSE IF p < 10 THEN "0" \o ToString(p) ELSE ToString(p)
    IN (IF a < 0 THEN "-" ELSE "") \o ToString(m \div 100) \o "." \o frac

\* Variant of ApprovedStatuses that also pays denied claims
ApprovedStatusesWithDenied == {"APPROVED", "APPROVE", "DENIED"}

ApprovedStatuses == {"APPROVED", "APPROVE"}

\* Variant of GuardedAmount that trusts the incoming amount whatever the status
GuardedAmountTrusting(event_status, payout_gbp) ==
    LET f == FloatOf(payout_gbp)
    IN IF ~f.ok THEN 0 ELSE f.val

\* LOGIC GUARD: the amount that is paid and recorded
GuardedAmount(event_status, payout_gbp) ==
    LET f == FloatOf(payout_gbp)
    IN IF ~f.ok THEN 0
       ELSE IF event_status \notin ApprovedStatuses THEN 0
       ELSE f.val

\* Variant of AlreadyPaid that never recognises a paid claim
AlreadyPaidNever(current_status) == FALSE

\* Idempotency check on the status read from the claim record
AlreadyPaid(current_status) == current_status = "CLOSED_PAID"

\* datetime.now() taken by invocation p
PayoutDate(p) == p

NoEvent ==
    [published |-> FALSE, claim_uuid |-> MISSING, status |-> MISSING,
     payout_gbp |-> [kind |-> "missing", val |-> 0]]

IdlePay == [pc |-> "idle", current_status |-> NULL, amount |-> 0, result |-> "none"]

\* "Emit Decision Event" / a direct invocation: the event detail is fixed here
\* and every delivery of it carries the same detail.
EmitDecisionEvent(c, s, a) ==
    /\ ~event.published
    /\ event' = [published |-> TRUE, claim_uuid |-> c, status |-> s, payout_gbp |-> a]
    /\ UNCHANGED <<claims, claimsTableConfigured, pay, transfers, termCalls, termResult>>
    /\ UNCHANGED nonFinVars

\* Event delivery: detail parsed, missing claim_uuid returns at once
PayoutReceive(p) ==
    /\ event.published
    /\ pay[p].pc = "idle"
    /\ pay' = [pay EXCEPT ![p] =
                 IF Falsy(event.claim_uuid)
                 THEN [@ EXCEPT !.pc = "done", !.result = "NONE"]
                 ELSE [@ EXCEPT !.pc = "check"]]
    /\ UNCHANGED <<claims, claimsTableConfigured, event, transfers, termCalls, termResult>>
    /\ UNCHANGED nonFinVars

\* 1. Idempotency check: get_item, skip when already CLOSED_PAID
PayoutIdempotencyCheck(p) ==
    /\ pay[p].pc = "check"
    /\ LET current_status == claims[event.claim_uuid].status
       IN pay' = [pay EXCEPT ![p] =
                    IF AlreadyPaid(current_status)
                    THEN [@ EXCEPT !.pc = "done", !.result = "SKIPPED",
                                   !.current_status = current_status]
                    ELSE [@ EXCEPT !.pc = "execute",
                                   !.current_status = current_status]]
    /\ UNCHANGED <<claims, claimsTableConfigured, event, transfers, termCalls, termResult>>
    /\ UNCHANGED nonFinVars

\* 2. Payout validation and 3. the bank transfer
PayoutExecute(p) ==
    /\ pay[p].pc = "execute"
    /\ IF event.status = NULL
       THEN \* None.upper() raises AttributeError
            /\ pay' = [pay EXCEPT ![p].pc = "done", ![p].result = "RAISED"]
            /\ UNCHANGED transfers
       ELSE LET raw == IF event.status = MISSING THEN "review" ELSE event.status
                amount == GuardedAmount(Upper(raw), PayoutGbp(event.payout_gbp))
            IN /\ pay' = [pay EXCEPT ![p].pc = "update", ![p].amount = amount]
               /\ transfers' = Append(transfers,
                                      [claim |-> event.claim_uuid, amount |-> amount,
                                       by |-> p])
    /\ UNCHANGED <<claims, claimsTableConfigured, event, termCalls, termResult>>
    /\ UNCHANGED nonFinVars

\* 4. update_item SET status, payout_date, final_payout_gbp
PayoutUpdate(p) ==
    /\ pay[p].pc = "update"
    /\ claims' = [claims EXCEPT ![event.claim_uuid] =
                    [@ EXCEPT !.exists = TRUE, !.status = "CLOSED_PAID",
                              !.payout_date = PayoutDate(p),
                              !.final_payout_gbp = AmountStr(pay[p].amount)]]
    /\ pay' = [pay EXCEPT ![p].pc = "done", ![p].result = "SUCCESS"]
    /\ UNCHANGED <<claimsTableConfigured, event, transfers, termCalls, termResult>>
    /\ UNCHANGED nonFinVars

\* ------------------------------------------------------------------------
\* Workflow status tasks (infra/stacks/foundation_stack.py)
\* ------------------------------------------------------------------------
BundleKey(c) == c \o "/context/context_bundle_optimized.json"

DecisionStatuses == {"APPROVED", "NEEDS_REVIEW", "DENIED"}

\* "Set Approved" / "Set Review Needed" / "Set Denied"
SfnSetDecisionStatus(c, s) ==
    /\ claims[c].status # s \/ claims[c].context_bundle_s3_key # BundleKey(c)
    /\ claims' = [claims EXCEPT ![c] =
                    [@ EXCEPT !.exists = TRUE, !.status = s,
                              !.context_bundle_s3_key = BundleKey(c)]]
    /\ UNCHANGED <<claimsTableConfigured, event, pay, transfers, termCalls, termResult>>
    /\ UNCHANGED nonFinVars

\* ------------------------------------------------------------------------
\* Terminal-state handler (src/icpa/orchestration/terminal_state_lambda.py)
\* ------------------------------------------------------------------------
\* event['decision'] as delivered
DecisionInputs ==
    {MISSING, "", "approve", "APPROVED", " deny ", "REJECTED", "flag",
     "FLAGGED", "MAYBE", "HITL"}

\* event['state'] as delivered
StateInputs == {MISSING, "ESCALATED"}

\* (decision or "").strip().upper()
StripUpper(d) ==
    CASE Falsy(d) -> ""
      [] d = "approve" -> "APPROVE"
      [] d = " deny " -> "DENY"
      [] d = "flag" -> "FLAG"
      [] OTHER -> d

DecisionKeys ==
    {"APPROVE", "APPROVED", "DENY", "DENIED", "REJECT", "REJECTED", "FLAG", "FLAGGED"}

_DECISION_TO_STATE(k) ==
    CASE k \in {"APPROVE", "APPROVED"} -> "APPROVED"
      [] k \in {"DENY", "DENIED", "REJECT", "REJECTED"} -> "DENIED"
      [] k \in {"FLAG", "FLAGGED"} -> "FLAGGED"

_resolve_state(decision, explicit_state) ==
    IF ~Falsy(explicit_state) THEN explicit_state
    ELSE LET normalized == StripUpper(decision)
         IN IF normalized \in DecisionKeys THEN _DECISION_TO_STATE(normalized)
            ELSE "APPROVED"

\* int(time.time()) taken by the n-th terminal-state invocation
UpdatedAt(n) == 100 + n

\* DatabaseClient.save_claim_state: put_item of a whole new item
save_claim_state(item, state, metadataDecision, t) ==
    [NoItem EXCEPT !.exists = TRUE, !.state = state, !.updated_at = t,
                   !.decision = metadataDecision]

NoTermResult ==
    [kind |-> "none", claim_id |-> MISSING, decision |-> MISSING,
     explicit |-> MISSING, state |-> NULL, persisted |-> FALSE]

TerminalStateHandler(c, d, st) ==
    /\ termCalls < MaxTerminalCalls
    /\ termCalls' = termCalls + 1
    /\ IF Falsy(c)
       THEN /\ termResult' = [NoTermResult EXCEPT !.kind = "raised", !.decision = d,
                                                  !.explicit = st]
            /\ UNCHANGED claims
       ELSE LET state == _resolve_state(d, st)
                metadataDecision == IF Falsy(d) THEN NULL ELSE d
            IN /\ claims' = IF claimsTableConfigured
                            THEN [claims EXCEPT ![c] =
                                    save_claim_state(@, state, metadataDecision,
                                                     UpdatedAt(termCalls + 1))]
                            ELSE claims
               /\ termResult' = [kind |-> "returned", claim_id |-> c, decision |-> d,
                                 explicit |-> st, state |-> state,
                                 persisted |-> claimsTableConfigured]
    /\ UNCHANGED <<claimsTableConfigured, event, pay, transfers>>
    /\ UNCHANGED nonFinVars

\* ------------------------------------------------------------------------
\* Agent wrapper (src/icpa/orchestration/agent_wrapper.py)
\* ------------------------------------------------------------------------
_ALLOWED_DECISIONS == {"CONTINUE", "STOP", "HITL", "APPROVE", "DENY", "BLOCKED", "FLAGGED"}

\* AGENT_TYPE values; None when neither AGENT_TYPE nor AGENT_NAME is set
AgentTypes == {"FRAUD_AGENT", "fraud_screen", "ADJUDICATION", NULL}

\* agent_type and agent_type.upper().startswith("FRAUD")
IsFraud(t) ==
    LET upper == CASE t = "fraud_screen" -> "FRAUD_SCREEN" [] OTHER -> t
    IN t # NULL /\ upper \in {"FRAUD_AGENT", "FRAUD_SCREEN"}

\* "decision" values of a parsed object: absent, null, a number or a string
AgentDecisions == {MISSING, "", "<int 5>", "approve", "MAYBE"}

IsStr(d) == d \notin {MISSING, NULL, "<int 0>", "<int 5>"}
Truthy(d) == d \notin {MISSING, NULL, "", "<int 0>"}

\* str.upper() over decision strings
UpperDecision(d) == CASE d = "approve" -> "APPROVE" [] OTHER -> d

\* "structured_findings": absent, a non-object, or an object with or without
\* fraud_score (scores in hundredths)
NoFindings == [kind |-> "absent", has_score |-> FALSE, fraud_score |-> 0, score_numeric |-> TRUE]
EmptyFindings == [kind |-> "object", has_score |-> FALSE, fraud_score |-> 0, score_numeric |-> TRUE]
Findings ==
    {NoFindings, EmptyFindings,
     [kind |-> "nonobject", has_score |-> FALSE, fraud_score |-> 0, score_numeric |-> TRUE],
     [kind |-> "object", has_score |-> TRUE, fraud_score |-> 35, score_numeric |-> TRUE]}

\* top-level "confidence": absent, a number or a string
Confidences == {[kind |-> "absent", val |-> 0], [kind |-> "num", val |-> 80],
                [kind |-> "str", val |-> 0]}

Objects ==
    [decision : AgentDecisions, structured_findings : Findings, confidence : Confidences]

NoObject ==
    [decision |-> MISSING, structured_findings |-> NoFindings,
     confidence |-> [kind |-> "absent", val |-> 0]]

\* A candidate is a brace-delimited span: json.loads either fails on it or
\* yields an object.
Candidates == {[valid |-> FALSE, obj |-> NoObject]} \cup {[valid |-> TRUE, obj |-> o] : o \in Objects}

\* A completion, as the candidate list _parse_agent_result builds from it:
\* the code-fence matches in order, then the outermost {...} span.
Completions == UNION {[1..n -> Candidates] : n \in 0..MaxCandidates}

\* Variant of _parse_agent_result that answers an approval when nothing parses
_parse_agent_result_lenient(text) ==
    LET ok == {i \in 1..Len(text) : text[i].valid}
    IN IF ok = {} THEN [exc |-> "none", obj |-> [NoObject EXCEPT !.decision = "approve"]]
       ELSE [exc |-> "none",
             obj |-> text[CHOOSE i \in ok : \A j \in ok : i <= j].obj]

_parse_agent_result(text) ==
    LET ok == {i \in 1..Len(text) : text[i].valid}
    IN IF ok = {} THEN [exc |-> "ValueError", obj |-> NoObject]
       ELSE [exc |-> "none",
             obj |-> text[CHOOSE i \in ok : \A j \in ok : i <= j].obj]

_normalize_agent_result(result, t) ==
    LET decision == IF ~Truthy(result.decision)
                    THEN (IF IsFraud(t) THEN "CONTINUE" ELSE "BLOCKED")
                    ELSE result.decision
        found == IF result.structured_findings.kind # "object"
                 THEN EmptyFindings ELSE result.structured_findings
        scored == IF found.has_score THEN found
                  ELSE [found EXCEPT !.has_score = TRUE, !.score_numeric = TRUE,
                                     !.fraud_score = IF result.confidence.kind = "num"
                                                     THEN result.confidence.val ELSE 0]
    IN [result EXCEPT !.decision = decision,
                      !.structured_findings = IF IsFraud(t) THEN scored ELSE @]

\* Variant of _validate_agent_result without the allow-list check
_validate_agent_result_any_string(result) ==
    IF ~IsStr(result.decision) THEN "ValueError"
    ELSE IF result.structured_findings.kind = "nonobject" THEN "ValueError"
    ELSE "none"

\* the exception _validate_agent_result raises, or "none"
_validate_agent_result(result) ==
    IF ~IsStr(result.decision) THEN "ValueError"
    ELSE IF UpperDecision(result.decision) \notin _ALLOWED_DECISIONS THEN "ValueError"
    ELSE IF result.structured_findings.kind = "nonobject" THEN "ValueError"
    ELSE "none"

\* except ValueError
Catches(exc) == exc = "ValueError"

\* Variant of Fallback that fails open for every agent type
FallbackFailOpen(t) ==
    [NoObject EXCEPT !.decision = "CONTINUE",
                     !.structured_findings =
                        [kind |-> "object", has_score |-> TRUE, fraud_score |-> 100, score_numeric |-> TRUE]]

\* the fallback result synthesized when last_error is set
Fallback(t) ==
    IF IsFraud(t)
    THEN [NoObject EXCEPT !.decision = "CONTINUE",
                          !.structured_findings =
                             [kind |-> "object", has_score |-> TRUE, fraud_score |-> 100, score_numeric |-> TRUE]]
    ELSE [NoObject EXCEPT !.decision = "BLOCKED"]

AgentStart ==
    [pc |-> "loop", attempt |-> 0, last_error |-> NULL, result |-> NoObject,
     accepted |-> NoObject, invocations |-> 0, failed |-> 0]

\* Variant of AttemptFailed that allows one attempt beyond the budget
AttemptFailedLate(exc) ==
    IF Catches(exc)
    THEN [agent EXCEPT !.last_error = exc,
                       !.invocations = @ + 1, !.failed = @ + 1,
                       !.pc = IF agent.attempt > parse_retries THEN "finish" ELSE "loop",
                       !.attempt = IF agent.attempt > parse_retries THEN @ ELSE @ + 1]
    ELSE [agent EXCEPT !.pc = "raised", !.invocations = @ + 1]

\* the except branch of one loop iteration; what the failed attempt left in
\* result is never read again (a later attempt or the fallback replaces it)
AttemptFailed(exc) ==
    IF Catches(exc)
    THEN [agent EXCEPT !.last_error = exc,
                       !.invocations = @ + 1, !.failed = @ + 1,
                       !.pc = IF agent.attempt >= parse_retries THEN "finish" ELSE "loop",
                       !.attempt = IF agent.attempt >= parse_retries THEN @ ELSE @ + 1]
    ELSE [agent EXCEPT !.pc = "raised", !.invocations = @ + 1]

\* One loop iteration: invoke the model, parse, normalize, validate;
\* accepted keeps the parsed object of the attempt that validated
AgentAttempt(completion_text) ==
    /\ agent.pc = "loop"
    /\ LET parsed == _parse_agent_result(completion_text)
           normalized == _normalize_agent_result(parsed.obj, agent_type)
           invalid == _validate_agent_result(normalized)
       IN agent' =
            IF parsed.exc # "none" THEN AttemptFailed(parsed.exc)
            ELSE IF invalid # "none" THEN AttemptFailed(invalid)
            ELSE [agent EXCEPT !.result = [normalized EXCEPT
                                             !.decision = UpperDecision(@)],
                               !.accepted = parsed.obj,
                               !.last_error = NULL, !.invocations = @ + 1,
                               !.pc = "finish"]
    /\ UNCHANGED <<agent_type, parse_retries>>
    /\ UNCHANGED nonAgentVars

\* _invoke_agent fails: the ClientError leaves the handler
AgentInvokeFails ==
    /\ agent.pc = "loop"
    /\ agent' = [agent EXCEPT !.pc = "raised", !.invocations = @ + 1]
    /\ UNCHANGED <<agent_type, parse_retries>>
    /\ UNCHANGED nonAgentVars

\* After the loop: substitute the fallback when last_error is set, return
AgentFinish ==
    /\ agent.pc = "finish"
    /\ agent' = [agent EXCEPT !.pc = "returned",
                              !.result = IF agent.last_error # NULL
                                         THEN Fallback(agent_type) ELSE @]
    /\ UNCHANGED <<agent_type, parse_retries>>
    /\ UNCHANGED nonAgentVars

\* ------------------------------------------------------------------------
\* Identity resolver (spec 4.1: resolve_or_create)
\* ------------------------------------------------------------------------
ExternalIds == {"CLM-1", "CLM-2"}
Resolvers == 1..MaxResolvers

NoMapping == [exists |-> FALSE, internal_id |-> NULL]

\* the freshly generated internal identifier of call r
FreshId(r) == "uuid-" \o ToString(r)

IdleResolver == [pc |-> "idle", external_id |-> NULL, new_id |-> NULL, returned |-> NULL]

\* Variant of PutIfAbsentSucceeds that writes unconditionally
PutAlwaysSucceeds(record) == TRUE

\* create-if-absent: the conditional write succeeds only on an absent key
PutIfAbsentSucceeds(record) == ~record.exists

\* call entry: generate the candidate internal identifier
ResolveBegin(r, e) ==
    /\ resolvers[r].pc = "idle"
    /\ resolvers' = [resolvers EXCEPT ![r] =
                       [@ EXCEPT !.pc = "write", !.external_id = e, !.new_id = FreshId(r)]]
    /\ UNCHANGED mappings
    /\ UNCHANGED nonIdVars

\* conditional write of the mapping record
ResolveConditionalWrite(r) ==
    /\ resolvers[r].pc = "write"
    /\ LET e == resolvers[r].external_id
       IN IF PutIfAbsentSucceeds(mappings[e])
          THEN /\ mappings' = [mappings EXCEPT ![e] =
                                 [exists |-> TRUE, internal_id |-> resolvers[r].new_id]]
               /\ resolvers' = [resolvers EXCEPT ![r] =
                                  [@ EXCEPT !.pc = "done", !.returned = resolvers[r].new_id]]
          ELSE /\ resolvers' = [resolvers EXCEPT ![r].pc = "read"]
               /\ UNCHANGED mappings
    /\ UNCHANGED nonIdVars

\* loser path: read the existing mapping; a record without an internal
\* identifier is a fatal corruption error
ResolveReadAfterConflict(r) ==
    /\ resolvers[r].pc = "read"
    /\ LET m == mappings[resolvers[r].external_id]
       IN resolvers' = [resolvers EXCEPT ![r] =
                          IF m.internal_id = NULL
                          THEN [@ EXCEPT !.pc = "fatal"]
                          ELSE [@ EXCEPT !.pc = "done", !.returned = m.internal_id]]
    /\ UNCHANGED mappings
    /\ UNCHANGED nonIdVars

\* ------------------------------------------------------------------------
\* Ingestion collector and workflow starter (spec 4.2, spec 6;
\* execution names in scripts/clean_execution.py)
\* ------------------------------------------------------------------------
InternalIds == {"c1", "c2"}
Arrivals == 1..MaxArrivals
DocTypes == {"FNOL", "INVOICE", "PHOTO"}
MinDocCount == 2

IdleArrival == [pc |-> "idle", internal_id |-> NULL, snapshot |-> {}, outcome |-> "none"]

\* the completeness rule: a pure function of the received-set snapshot
CriticalMass(rule, snapshot) ==
    IF rule = "named"
    THEN {"FNOL", "INVOICE"} \subseteq {d.type : d \in snapshot}
    ELSE Cardinality(snapshot) >= MinDocCount

\* Variant of StartAccepted that ignores the deduplication key
StartAcceptedAlways(status) == TRUE

\* start(dedup_key): accepted unless an execution of that name exists
StartAccepted(status) == status = "NONE"

\* record_document: atomic append, returns the updated set
RecordDocument(a, c, ty) ==
    /\ arrivals[a].pc = "idle"
    /\ LET updated == received[c] \cup {[ref |-> a, type |-> ty]}
       IN /\ received' = [received EXCEPT ![c] = updated]
          /\ arrivals' = [arrivals EXCEPT ![a] =
                            [@ EXCEPT !.pc = "decide", !.internal_id = c,
                                      !.snapshot = updated]]
    /\ UNCHANGED <<triggerRule, executions, runs>>
    /\ UNCHANGED nonTrigVars

\* maybe_trigger_pipeline: decide completeness and start the workflow under
\* the internal id; "already running" is swallowed
MaybeTriggerPipeline(a) ==
    /\ arrivals[a].pc = "decide"
    /\ LET c == arrivals[a].internal_id
       IN IF ~CriticalMass(triggerRule, arrivals[a].snapshot)
          THEN /\ arrivals' = [arrivals EXCEPT ![a].pc = "done",
                                               ![a].outcome = "not_ready"]
               /\ UNCHANGED <<executions, runs>>
          ELSE IF StartAccepted(executions[c])
          THEN /\ executions' = [executions EXCEPT ![c] = "RUNNING"]
               /\ runs' = [runs EXCEPT ![c] = @ + 1]
               /\ arrivals' = [arrivals EXCEPT ![a].pc = "done",
                                               ![a].outcome = "accepted"]
          ELSE /\ arrivals' = [arrivals EXCEPT ![a].pc = "done",
                                               ![a].outcome = "already_running"]
               /\ UNCHANGED <<executions, runs>>
    /\ UNCHANGED <<triggerRule, received>>
    /\ UNCHANGED nonTrigVars

\* the run ends; its name stays taken
ExecutionFinishes(c) ==
    /\ executions[c] = "RUNNING"
    /\ executions' = [executions EXCEPT ![c] = "SUCCEEDED"]
    /\ UNCHANGED <<triggerRule, received, runs, arrivals>>
    /\ UNCHANGED nonTrigVars

\* clean_execution: a running execution is stopped, a finished one stays
clean_execution(c) ==
    /\ executions[c] = "RUNNING"
    /\ executions' = [executions EXCEPT ![c] = "ABORTED"]
    /\ UNCHANGED <<triggerRule, received, runs, arrivals>>
    /\ UNCHANGED nonTrigVars

\* ------------------------------------------------------------------------
\* Redaction span merge (src/icpa/processing/handlers.py, redact_phi)
\* ------------------------------------------------------------------------
EntityTypes == {"NAME", "DATE"}

\* a detected entity with absolute offsets, end exclusive
Spans == {[BeginOffset |-> b, EndOffset |-> e, Type |-> t] :
             b \in 0..TextLen, e \in 0..TextLen, t \in EntityTypes}

DetectedSpans == {sp \in Spans : sp.BeginOffset < sp.EndOffset}

SpanLists == UNION {[1..n -> DetectedSpans] : n \in 0..MaxSpans}

Max(a, b) == IF a >= b THEN a ELSE b

\* insert x behind every element that may stay in front of it
RECURSIVE InsertBehind(_, _, _)
InsertBehind(sorted, x, desc) ==
    IF sorted = <<>> THEN <<x>>
    ELSE IF (IF desc THEN Head(sorted).BeginOffset >= x.BeginOffset
                     ELSE Head(sorted).BeginOffset <= x.BeginOffset)
         THEN <<Head(sorted)>> \o InsertBehind(Tail(sorted), x, desc)
         ELSE <<x>> \o sorted

\* list.sort(key=BeginOffset, reverse=desc): stable in both directions
RECURSIVE SortByBegin(_, _)
SortByBegin(list, desc) ==
    IF list = <<>> THEN <<>>
    ELSE InsertBehind(SortByBegin(SubSeq(list, 1, Len(list) - 1), desc),
                      list[Len(list)], desc)

\* Variant of ExtendEnd that takes the end of the later span
ExtendEndToNext(curr_end, next_end) == next_end

\* curr_end = max(curr_end, next_end)
ExtendEnd(curr_end, next_end) == Max(curr_end, next_end)

\* the left-to-right sweep over the sorted ranges
RECURSIVE Sweep(_, _, _, _)
Sweep(ranges, i, curr, merged) ==
    IF i > Len(ranges) THEN Append(merged, curr)
    ELSE IF ranges[i].BeginOffset < curr.EndOffset
         THEN Sweep(ranges, i + 1,
                    [curr EXCEPT !.EndOffset = ExtendEnd(@, ranges[i].EndOffset)],
                    merged)
         ELSE Sweep(ranges, i + 1, ranges[i], Append(merged, curr))

MergeRanges(found) ==
    LET ranges == SortByBegin(SortByBegin(found, TRUE), FALSE)
    IN IF ranges = <<>> THEN <<>> ELSE Sweep(ranges, 2, ranges[1], <<>>)

\* redact_phi after detection: sort, merge
RedactMerge ==
    /\ redact.pc = "detected"
    /\ redact' = [pc |-> "merged", merged |-> MergeRanges(entities_found)]
    /\ UNCHANGED entities_found
    /\ UNCHANGED nonRedactVars

\* ------------------------------------------------------------------------
\* Context assembler (src/icpa/context/assembler.py)
\* ------------------------------------------------------------------------
\* an extract object: its LastModified time and its 'external-id' metadata;
\* folder is TRUE for a key that ends with '/', priority_key is the first
\* entry of priority_order its key contains, chunk_len the length of its
\* text with the document header, date what _extract_date finds in the text
ExtractObjects ==
    [LastModified : {1, 2}, external_id : {MISSING} \cup ExternalIds, text : {<<>>},
     folder : {FALSE}, priority_key : {"none"}, chunk_len : {0}, date : {"9999-99-99"}]

ExtractListings == UNION {[1..n -> ExtractObjects] : n \in 0..MaxExtracts}

\* extract texts, word by word, as stored (mixed case)
Words == {"fnol", "First", "Notification", "Invoice", "Subtotal", "note"}
Texts == UNION {[1..n -> Words] : n \in 0..MaxWords}

\* extract objects that differ in their text
TextObjects ==
    [LastModified : {1, 2}, external_id : {MISSING}, text : Texts,
     folder : {FALSE}, priority_key : {"none"}, chunk_len : {0}, date : {"9999-99-99"}]

\* extract objects that differ in key, length and date; the folder object of
\* the extracts prefix
BundleObjects ==
    [LastModified : {1, 2}, external_id : {MISSING}, text : {<<>>}, folder : {FALSE},
     priority_key : {"FNOL", "ADJUSTER", "none"}, chunk_len : {60000, 100000, 150000},
     date : {"2024-01-05", "9999-99-99"}]
    \cup [LastModified : {2}, external_id : {MISSING}, text : {<<>>}, folder : {TRUE},
          priority_key : {"none"}, chunk_len : {0}, date : {"9999-99-99"}]

BundleListings == UNION {[1..n -> BundleObjects] : n \in 0..MaxExtracts}

TextListings == UNION {[1..n -> TextObjects] : n \in 0..MaxExtracts}

\* str.upper() over the words
UpperWord(w) ==
    CASE w = "fnol" -> "FNOL"
      [] w = "First" -> "FIRST"
      [] w = "Notification" -> "NOTIFICATION"
      [] w = "Invoice" -> "INVOICE"
      [] w = "Subtotal" -> "SUBTOTAL"
      [] w = "note" -> "NOTE"
      [] OTHER -> w

\* keyword in word: substring test on one upper-cased word
WordContains(w, keyword) ==
    \/ w = keyword
    \/ w = "SUBTOTAL" /\ keyword = "TOTAL"

\* " ".join([d['text'].upper() for d in docs]): words separated by one space;
\* an empty text leaves an empty word between its two separators
RECURSIVE TextBlob(_, _)
TextBlob(listing, fetched) ==
    IF listing = <<>> THEN <<>>
    ELSE LET n == Len(listing)
             front == TextBlob(SubSeq(listing, 1, n - 1), fetched)
             text == listing[n].text
         IN IF n \notin fetched THEN front
            ELSE front \o (IF text = <<>> THEN <<"">>
                           ELSE [i \in 1..Len(text) |-> UpperWord(text[i])])

\* a one-word keyword occurs in the blob
HasWord(blob, keyword) == \E i \in 1..Len(blob) : WordContains(blob[i], keyword)

\* "FIRST NOTIFICATION" occurs in the blob: two adjacent words
HasFirstNotification(blob) ==
    \E i \in 1..(Len(blob) - 1) : blob[i] = "FIRST" /\ blob[i + 1] = "NOTIFICATION"

\* Variant of check_min_viable_context without the document count
check_min_viable_context_uncounted(listing, fetched) ==
    LET text_blob == TextBlob(listing, fetched)
        has_fnol == HasWord(text_blob, "FNOL") \/ HasFirstNotification(text_blob)
        has_invoice == HasWord(text_blob, "INVOICE") \/ HasWord(text_blob, "TOTAL")
    IN IF has_fnol /\ has_invoice THEN "COMPLETE" ELSE "PARTIAL_CONTEXT"

check_min_viable_context(listing, fetched) ==
    LET text_blob == TextBlob(listing, fetched)
        has_fnol == HasWord(text_blob, "FNOL") \/ HasFirstNotification(text_blob)
        has_invoice == HasWord(text_blob, "INVOICE") \/ HasWord(text_blob, "TOTAL")
    IN IF Cardinality(fetched) < 2 THEN "INCOMPLETE"
       ELSE IF has_fnol /\ has_invoice THEN "COMPLETE"
       ELSE "PARTIAL_CONTEXT"

\* execution_start_time: None or unparseable (no stale check), or a time
StartTimes == {0, 2}

\* items the index holds for external id e: mapping items carrying claim_id,
\* claim items carrying only their key
IndexItemsFor(e) ==
    {[claim_id |-> u, PK |-> "MAPPING#" \o e] : u \in InternalIds}
    \cup {[claim_id |-> MISSING, PK |-> "CLAIM#" \o u] : u \in InternalIds}

QueryResults(e) == UNION {[1..n -> IndexItemsFor(e)] : n \in 0..MaxIndexItems}

\* canonical_id.replace("CLAIM#", "").replace("MAPPING#", "")
StripPrefixes(id) ==
    CASE id = "CLAIM#c1" -> "c1"
      [] id = "CLAIM#c2" -> "c2"
      [] id = "MAPPING#CLM-1" -> "CLM-1"
      [] id = "MAPPING#CLM-2" -> "CLM-2"
      [] OTHER -> id

\* items[0].get('claim_id') or items[0].get('PK'), prefixes stripped
CanonicalUuid(items) ==
    StripPrefixes(IF ~Falsy(items[1].claim_id) THEN items[1].claim_id ELSE items[1].PK)

\* stale check: objects older than the execution start are skipped
Fresh(obj, exec_time) == ~(exec_time # 0 /\ obj.LastModified < exec_time)

\* Variant of Fetched without the stale check
FetchedWithStale(listing, exec_time) == {i \in 1..Len(listing) : ~listing[i].folder}

\* indices of the fetched documents, in listing order
Fetched(listing, exec_time) ==
    {i \in 1..Len(listing) : ~listing[i].folder /\ Fresh(listing[i], exec_time)}

\* the indices in I as a sequence in ascending order
RECURSIVE InOrder(_)
InOrder(I) ==
    IF I = {} THEN <<>>
    ELSE LET i == CHOOSE x \in I : \A y \in I : x <= y
         IN <<i>> \o InOrder(I \ {i})

\* create_timeline: the fetched documents, stable-sorted by date
create_timeline(listing, fetched) ==
    InOrder({i \in fetched : listing[i].date # "9999-99-99"})
    \o InOrder({i \in fetched : listing[i].date = "9999-99-99"})

priority_order == <<"FNOL", "INVOICE", "POLICE_REPORT", "ADJUSTER">>

\* the sort key of optimize_bundle: index in priority_order, else 999
PriorityOf(obj) ==
    IF \E i \in 1..Len(priority_order) : priority_order[i] = obj.priority_key
    THEN (CHOOSE i \in 1..Len(priority_order) : priority_order[i] = obj.priority_key) - 1
    ELSE 999

\* sorted(self.docs, key=...): stable
SortedDocs(listing, fetched) ==
    LET ranks == <<0, 1, 2, 3, 999>>
        at(r) == InOrder({i \in fetched : PriorityOf(listing[i]) = ranks[r]})
    IN at(1) \o at(2) \o at(3) \o at(4) \o at(5)

limit == 150000

\* the loop of optimize_bundle over the sorted documents
RECURSIVE IncludeFrom(_, _, _)
IncludeFrom(listing, sorted_docs, current_len) ==
    IF sorted_docs = <<>> THEN <<>>
    ELSE LET doc == Head(sorted_docs)
             chunk_len == listing[doc].chunk_len
         IN IF current_len + chunk_len < limit
            THEN <<doc>> \o IncludeFrom(listing, Tail(sorted_docs), current_len + chunk_len)
            ELSE IncludeFrom(listing, Tail(sorted_docs), current_len)

\* optimized['documents'], as indices into the listing
optimize_bundle(listing, fetched) == IncludeFrom(listing, SortedDocs(listing, fetched), 0)

\* self.metadata['external_id'] after the fetch loop: the value of the last
\* fetched document that carries one
DiscoveredExternalId(listing, exec_time) ==
    LET with == {i \in Fetched(listing, exec_time) : listing[i].external_id # MISSING}
    IN IF with = {} THEN MISSING
       ELSE listing[CHOOSE i \in with : \A j \in with : j <= i].external_id

\* "2. Strict UUID Validation": TRUE when the split-brain error is raised
SplitBrain(ext_id, claim_uuid) ==
    /\ ext_id # MISSING
    /\ ExternalIdIndex[ext_id] # <<>>
    /\ CanonicalUuid(ExternalIdIndex[ext_id]) # claim_uuid

FullKey(c) == c \o "/context/context_bundle.json"
OptKey(c) == c \o "/context/context_bundle_optimized.json"

\* documents, timeline and optimized hold indices into the listing
IdleAsm ==
    [pc |-> "idle", claim_uuid |-> MISSING, result |-> "none", external_id |-> MISSING,
     context_status |-> "none", documents |-> <<>>, timeline |-> <<>>,
     optimized |-> <<>>]

\* handler: guard, fetch_extracts with the identity check, save_bundles
Assemble(c) ==
    /\ asm.pc = "idle"
    /\ IF Falsy(c)
       THEN /\ asm' = [asm EXCEPT !.pc = "done", !.result = "ValueError: Missing claim_uuid"]
            /\ UNCHANGED <<bundles, claims>>
       ELSE IF extracts = <<>>
       THEN /\ asm' = [asm EXCEPT !.pc = "done", !.claim_uuid = c,
                                  !.result = "ValueError: Guardrail"]
            /\ UNCHANGED <<bundles, claims>>
       ELSE LET ext_id == DiscoveredExternalId(extracts, execution_start_time)
                fetched == Fetched(extracts, execution_start_time)
            IN IF SplitBrain(ext_id, c)
               THEN /\ asm' = [asm EXCEPT !.pc = "done", !.claim_uuid = c,
                                          !.external_id = ext_id,
                                          !.result = "ValueError: Split-Brain"]
                    /\ UNCHANGED <<bundles, claims>>
               ELSE /\ bundles' = bundles \cup {FullKey(c), OptKey(c)}
                    /\ claims' = [claims EXCEPT ![c] =
                                     [@ EXCEPT !.exists = TRUE,
                                               !.context_bundle_s3_key = FullKey(c),
                                               !.updated_at = 200]]
                    /\ asm' = [asm EXCEPT !.pc = "done", !.claim_uuid = c,
                                          !.external_id = ext_id, !.result = "success",
                                          !.context_status =
                                             check_min_viable_context(extracts, fetched),
                                          !.documents = InOrder(fetched),
                                          !.timeline = create_timeline(extracts, fetched),
                                          !.optimized = optimize_bundle(extracts, fetched)]
    /\ UNCHANGED <<extracts, execution_start_time, ExternalIdIndex>>
    /\ UNCHANGED <<claimsTableConfigured, event, pay, transfers, termCalls, termResult>>
    /\ UNCHANGED nonAsmVars

\* ------------------------------------------------------------------------
\* Document processing (src/icpa/processing/handlers.py: processing_handler,
\* process_document, redact_phi up to the detection loop)
\* ------------------------------------------------------------------------
\* detect_phi on one chunk either answers or fails
DetectOutcomes == {"ok", "fail"}

\* A source document: whether a cached extraction exists for it, and the
\* outcome of entity detection on each chunk of its text (no chunks for an
\* empty text).
SourceDocuments ==
    [cached : BOOLEAN,
     chunks : UNION {[1..n -> DetectOutcomes] : n \in 0..MaxChunks}]

DocumentListings == UNION {[1..n -> SourceDocuments] : n \in 0..MaxDocs}

\* the detection loop of redact_phi: the first failing chunk raises; otherwise
\* entities of every chunk were collected
DetectAll(chunks) ==
    IF \E i \in 1..Len(chunks) : chunks[i] = "fail"
    THEN [exc |-> "Exception", chunks_redacted |-> 0]
    ELSE [exc |-> "none", chunks_redacted |-> Len(chunks)]

\* an extract in the clean store: the chunks redacted against the chunks of
\* the text written
ExtractOf(i, chunks_redacted, chunks_total) ==
    [doc_id |-> i, chunks_redacted |-> chunks_redacted, chunks_total |-> chunks_total]

IdleProc ==
    [pc |-> "idle", claim_uuid |-> MISSING, next |-> 1, processed_count |-> 0,
     errors |-> {}, outcome |-> "none", status |-> "none", error_count |-> 0]

\* processing_handler entry: the claim_uuid check
ProcessingStart(c) ==
    /\ proc.pc = "idle"
    /\ proc' = IF Falsy(c)
               THEN [proc EXCEPT !.pc = "done", !.outcome = "returned", !.status = "failed"]
               ELSE [proc EXCEPT !.pc = "loop", !.claim_uuid = c]
    /\ UNCHANGED <<documents, clean_extracts, doc_cache>>
    /\ UNCHANGED finVars
    /\ UNCHANGED nonProcVars

\* one iteration of the listing loop: process_document under the handler's
\* try/except
ProcessDocument ==
    /\ proc.pc = "loop"
    /\ proc.next <= Len(documents)
    /\ LET i == proc.next
           doc == documents[i]
           detected == DetectAll(doc.chunks)
       IN IF doc.cached
          THEN \* cache hit: the stored extract is returned, nothing is written
               /\ proc' = [proc EXCEPT !.next = @ + 1, !.processed_count = @ + 1]
               /\ UNCHANGED <<clean_extracts, doc_cache, claims>>
          ELSE IF detected.exc # "none"
          THEN \* redact_phi raised: process_document wrote nothing; the
               \* handler records the key and goes on
               /\ proc' = [proc EXCEPT !.next = @ + 1, !.errors = @ \cup {i}]
               /\ UNCHANGED <<clean_extracts, doc_cache, claims>>
          ELSE /\ clean_extracts' = clean_extracts \cup
                     {ExtractOf(i, detected.chunks_redacted, Len(doc.chunks))}
               /\ doc_cache' = doc_cache \cup {i}
               /\ claims' = [claims EXCEPT ![proc.claim_uuid] =
                                [@ EXCEPT !.exists = TRUE, !.status = "EXTRACTED",
                                          !.updated_at = 300 + i]]
               /\ proc' = [proc EXCEPT !.next = @ + 1, !.processed_count = @ + 1]
    /\ UNCHANGED documents
    /\ UNCHANGED <<claimsTableConfigured, event, pay, transfers, termCalls, termResult>>
    /\ UNCHANGED nonProcVars

\* after the loop: the batch status is computed and returned
ProcessingReturn ==
    /\ proc.pc = "loop"
    /\ proc.next > Len(documents)
    /\ proc' = [proc EXCEPT !.pc = "done", !.outcome = "returned",
                            !.status = IF proc.errors # {} THEN "PARTIAL_ERROR"
                                       ELSE IF proc.processed_count > 0 THEN "EXTRACTED"
                                       ELSE "EMPTY",
                            !.error_count = Cardinality(proc.errors)]
    /\ UNCHANGED <<documents, clean_extracts, doc_cache>>
    /\ UNCHANGED finVars
    /\ UNCHANGED nonProcVars

\* the listing call fails: the outer except re-raises
ProcessingListFails ==
    /\ proc.pc = "loop"
    /\ proc.next = 1
    /\ proc' = [proc EXCEPT !.pc = "done", !.outcome = "raised"]
    /\ UNCHANGED <<documents, clean_extracts, doc_cache>>
    /\ UNCHANGED finVars
    /\ UNCHANGED nonProcVars

\* ------------------------------------------------------------------------
\* Ingestion (src/icpa/ingestion/handlers.py: ingestion_handler)
\* ------------------------------------------------------------------------
\* what becomes of one record after the claim state is saved
RecordOutcomes == {"QUARANTINED", "STARTED", "EXTRACTED"}

\* one iteration of the record loop: save_claim_state(claim_id, "INTAKE"),
\* then the document is quarantined, handed to an extraction job or extracted
IngestRecord(c, outcome) ==
    /\ Len(ingest) < MaxRecords
    /\ claims' = IF claimsTableConfigured
                 THEN [claims EXCEPT ![c] =
                         save_claim_state(@, "INTAKE", NULL, UpdatedAt(Len(ingest) + 1))]
                 ELSE claims
    /\ ingest' = Append(ingest, [status |-> outcome, claim_id |-> c])
    /\ UNCHANGED <<claimsTableConfigured, event, pay, transfers, termCalls, termResult>>
    /\ UNCHANGED nonIngVars

\* ------------------------------------------------------------------------
\* Decision pipeline (src/icpa/decision/agents.py, src/icpa/decision/handlers.py)
\* ------------------------------------------------------------------------
\* amounts among the extracted facts, in pence: absent, a number, a string
\* that cleans up to a number, a string that does not
FactAmounts ==
    {[kind |-> "missing", val |-> 0], [kind |-> "num", val |-> 0],
     [kind |-> "num", val |-> 45000], [kind |-> "str", val |-> 120050],
     [kind |-> "bad", val |-> 0]}

NoAmount == [kind |-> "missing", val |-> 0]

\* a JSON object in a completion, by the keys the handler reads
NoFields ==
    [decision |-> MISSING, recommendation |-> MISSING, fraud_score |-> NoAmount,
     total_amount |-> NoAmount, invoice_total |-> NoAmount]

SummaryObjects ==
    {[NoFields EXCEPT !.total_amount = t, !.invoice_total = i] :
        t \in FactAmounts, i \in FactAmounts}

\* fraud_score: absent, a number in hundredths, or a string
FraudScores ==
    {NoAmount, [kind |-> "num", val |-> 50], [kind |-> "num", val |-> 90],
     [kind |-> "bad", val |-> 0]}

FraudObjects ==
    {[NoFields EXCEPT !.decision = d, !.recommendation = r, !.fraud_score = f] :
        d \in {MISSING, "DENY", "PASS"},
        r \in {MISSING, "DENY", "REVIEW", "PASS", "APPROVE"},
        f \in FraudScores}

AdjudicationObjects ==
    {[NoFields EXCEPT !.decision = d] :
        d \in {MISSING, "APPROVE", "approve", "DENY", "REVIEW"}}

\* What the model call gives back: an error, or a completion that holds no
\* JSON block, a block json.loads rejects, a JSON value that is not an
\* object, or an object.
ResponsesOver(objects) ==
    {[call |-> "error", shape |-> "none", obj |-> NoFields],
     [call |-> "ok", shape |-> "no_json", obj |-> NoFields],
     [call |-> "ok", shape |-> "invalid_json", obj |-> NoFields],
     [call |-> "ok", shape |-> "non_object", obj |-> NoFields]}
    \cup {[call |-> "ok", shape |-> "object", obj |-> o] : o \in objects}

\* Variant of FailSafeDecision that lets a failure through as an approval
FailSafeDecisionApprove == [NoFields EXCEPT !.decision = "APPROVE"]

\* the fail-safe result of _parse_response and invoke
FailSafeDecision == [NoFields EXCEPT !.decision = "REVIEW"]

\* BedrockAgent._parse_response: every exception gives the fail-safe result
_parse_response(response) ==
    IF response.shape = "object" THEN response.obj ELSE FailSafeDecision

\* BedrockAgent.invoke
invoke(response) ==
    IF response.call # "ok" THEN FailSafeDecision ELSE _parse_response(response)

\* x.get(key, default)
GetOr(v, default) == IF v = MISSING THEN default ELSE v

\* amount = total_amount or invoice_total or 0.0
\* float(str(amount) with currency signs and commas removed), 0.0 on ValueError
PayoutOf(facts) ==
    LET truthy(a) == a.kind \in {"str", "bad"} \/ (a.kind = "num" /\ a.val # 0)
        amount == IF truthy(facts.total_amount) THEN facts.total_amount
                  ELSE IF truthy(facts.invoice_total) THEN facts.invoice_total
                  ELSE [kind |-> "num", val |-> 0]
    IN IF amount.kind = "bad" THEN 0 ELSE amount.val

NoOutcome ==
    [kind |-> "none", status |-> "none", decision |-> "none",
     recommendation |-> "none", payout_gbp |-> 0]

NoResponse == [call |-> "none", shape |-> "none", obj |-> NoFields]

IdleDec ==
    [pc |-> "idle", summary |-> NoResponse, fraud |-> NoResponse,
     adjudication |-> NoResponse, summary_result |-> NoFields,
     fraud_result |-> NoFields, adj_result |-> NoFields, outcome |-> NoOutcome]

\* entry: the claim id check and the context bundle fetch
DecisionStart(c, bundle_found) ==
    /\ dec.pc = "idle"
    /\ dec' = IF Falsy(c)
              THEN [dec EXCEPT !.pc = "done", !.outcome = [NoOutcome EXCEPT !.kind = "raised"]]
              ELSE IF ~bundle_found
              THEN [dec EXCEPT !.pc = "done",
                               !.outcome = [NoOutcome EXCEPT !.kind = "returned",
                                                             !.status = "error"]]
              ELSE [dec EXCEPT !.pc = "summarize"]
    /\ UNCHANGED nonDecVars

InvokeSummarization(response) ==
    /\ dec.pc = "summarize"
    /\ dec' = [dec EXCEPT !.pc = "fraud", !.summary = response,
                          !.summary_result = invoke(response)]
    /\ UNCHANGED nonDecVars

\* the fraud agent and the fail-fast audit logic
InvokeFraud(response) ==
    /\ dec.pc = "fraud"
    /\ LET fraud_result == invoke(response)
           audited == \/ fraud_result.decision = "DENY"
                      \/ fraud_result.recommendation \in {"DENY", "REVIEW"}
           rec == GetOr(fraud_result.recommendation, fraud_result.decision)
           score == fraud_result.fraud_score
       IN dec' =
            IF audited /\ rec \notin {"DENY", "REVIEW"} /\ score.kind = "bad"
            THEN \* comparing a string with 0.7 raises TypeError
                 [dec EXCEPT !.pc = "done", !.fraud = response,
                             !.fraud_result = fraud_result,
                             !.outcome = [NoOutcome EXCEPT !.kind = "raised"]]
            ELSE IF audited /\ (rec \in {"DENY", "REVIEW"} \/ score.val > 70)
            THEN [dec EXCEPT !.pc = "done", !.fraud = response,
                             !.fraud_result = fraud_result,
                             !.outcome = [kind |-> "returned", status |-> "success",
                                          decision |-> IF Falsy(rec) THEN "REVIEW" ELSE rec,
                                          recommendation |-> IF Falsy(rec) THEN "REVIEW" ELSE rec,
                                          payout_gbp |-> 0]]
            ELSE [dec EXCEPT !.pc = "adjudicate", !.fraud = response,
                             !.fraud_result = fraud_result]
    /\ UNCHANGED nonDecVars

\* the adjudication agent, the payout logic and the return
InvokeAdjudication(response) ==
    /\ dec.pc = "adjudicate"
    /\ LET adj_result == invoke(response)
           payout_gbp == IF adj_result.decision = "APPROVE"
                         THEN PayoutOf(dec.summary_result) ELSE 0
       IN dec' = [dec EXCEPT !.pc = "done", !.adjudication = response,
                             !.adj_result = adj_result,
                             !.outcome = [kind |-> "returned", status |-> "success",
                                          decision |-> GetOr(adj_result.decision, "REVIEW"),
                                          recommendation |-> GetOr(adj_result.decision, "REVIEW"),
                                          payout_gbp |-> payout_gbp]]
    /\ UNCHANGED nonDecVars

\* ------------------------------------------------------------------------
\* Redaction of a text (src/icpa/processing/handlers.py: redact_phi, whole)
\* ------------------------------------------------------------------------
\* texts are sequences of characters
PhiText == <<"N", "a", "m", "e", ":", " ", "J", "a", "n", "e", " ", "D", "o", "e", ",", " ", "T", "o", "t", "a", "l", ":", " ", "$", "9", "0", "0">>

PhiTexts == {<<>>, PhiText}

\* f"[REDACTED:{entity_type}]"
Placeholder(entity_type) ==
    CASE entity_type = "NAME" -> <<"[", "R", "E", "D", "A", "C", "T", "E", "D", ":", "N", "A", "M", "E", "]">>
      [] entity_type = "DATE" -> <<"[", "R", "E", "D", "A", "C", "T", "E", "D", ":", "D", "A", "T", "E", "]">>

\* offsets the detector may report as entity boundaries
PhiOffsets == {0, 6, 15, 20}

\* what detect_phi may answer for a text: entities inside it, in any order
PhiSpans(text) ==
    {sp \in [BeginOffset : PhiOffsets, EndOffset : PhiOffsets, Type : {"NAME"}] :
        sp.BeginOffset < sp.EndOffset /\ sp.EndOffset <= Len(text)}

PhiDetections(text) == UNION {[1..n -> PhiSpans(text)] : n \in 0..MaxDetections}

\* Variant of ReplaceSpan that also drops the character at the end offset
ReplaceSpanInclusive(text, span) ==
    SubSeq(text, 1, span.BeginOffset) \o Placeholder(span.Type)
        \o SubSeq(text, span.EndOffset + 2, Len(text))

\* redacted_text[:start] + replacement + redacted_text[end:]
ReplaceSpan(text, span) ==
    SubSeq(text, 1, span.BeginOffset) \o Placeholder(span.Type)
        \o SubSeq(text, span.EndOffset + 1, Len(text))

\* for start, end, entity_type in reversed(merged): replace
RECURSIVE ApplyBottomUp(_, _)
ApplyBottomUp(text, merged) ==
    IF merged = <<>> THEN text
    ELSE ApplyBottomUp(ReplaceSpan(text, merged[Len(merged)]),
                       SubSeq(merged, 1, Len(merged) - 1))

redact_phi(text, entities) == ApplyBottomUp(text, MergeRanges(entities))

IdlePhi(text) ==
    [passes |-> 0, input |-> text, entities |-> <<>>, merged |-> <<>>,
     first |-> text, text |-> text]

\* one call of redact_phi on the current text; the empty text is returned
\* without asking the detector
RedactPass(entities) ==
    /\ phi.passes < MaxPasses
    /\ phi.text = <<>> => entities = <<>>
    /\ LET redacted_text == IF phi.text = <<>> THEN phi.text
                            ELSE redact_phi(phi.text, entities)
       IN phi' = [phi EXCEPT !.passes = @ + 1, !.text = redacted_text,
                             !.first = IF phi.passes = 0 THEN redacted_text ELSE @,
                             !.entities = IF phi.passes = 0 THEN entities ELSE @,
                             !.merged = IF phi.passes = 0 THEN MergeRanges(entities) ELSE @]
    /\ UNCHANGED nonPhiVars

\* ------------------------------------------------------------------------
\* Agent wrapper functions called on their own
\* (src/icpa/orchestration/agent_wrapper.py)
\* ------------------------------------------------------------------------
\* findings whose fraud_score is present and not a number (a string, null)
TextScoreFindings ==
    [kind |-> "object", has_score |-> TRUE, fraud_score |-> 0, score_numeric |-> FALSE]

\* parsed objects handed to _normalize_agent_result
ParsedObjects ==
    [decision : AgentDecisions, structured_findings : Findings \cup {TextScoreFindings},
     confidence : Confidences]

IdleFn ==
    [op |-> "none", agent_type |-> NULL, text |-> <<>>, input |-> NoObject,
     exc |-> "none", result |-> NoObject, completion |-> <<>>]

\* _normalize_agent_result(result, agent_type)
CallNormalize(result, t) ==
    /\ fn.op = "none"
    /\ fn' = [fn EXCEPT !.op = "normalize", !.agent_type = t, !.input = result,
                        !.result = _normalize_agent_result(result, t)]
    /\ UNCHANGED nonFnVars

\* _parse_agent_result(text)
CallParse(text) ==
    /\ fn.op = "none"
    /\ LET parsed == _parse_agent_result(text)
       IN fn' = [fn EXCEPT !.op = "parse", !.text = text, !.exc = parsed.exc,
                           !.result = parsed.obj]
    /\ UNCHANGED nonFnVars

\* A completion text, piece by piece (pieces are separated by blanks):
\*   "fence" a code-fence marker (three backquotes), with or without "json"
\*   "text"  words without braces or quotes
\*   "{A}"   a JSON object with a decision
\*   "{}"    the empty JSON object
\*   "{x}"   braces around words that are not JSON
\*   "{W"    the start of a JSON object up to the opening quote of a string value
\*   "W}"    the closing quote of that string and the closing brace
CompletionPieces == {"fence", "text", "{A}", "{}", "{x}", "{W", "W}"}

CompletionTexts == UNION {[1..n -> CompletionPieces] : n \in 0..MaxPieces}

HasOpenBrace(piece) == piece \in {"{A}", "{}", "{x}", "{W"}
HasCloseBrace(piece) == piece \in {"{A}", "{}", "{x}", "W}"}

\* the end of the match of the code-fence pattern (marker, blanks, a group
\* from "{" to "}" taken non-greedily, blanks, marker) that starts at
\* piece i, 0 when there is none: the group runs from the brace after the
\* marker to the first closing brace that a marker follows
FenceMatchEnd(text, i) ==
    LET ends == {j \in (i + 1)..(Len(text) - 1) :
                    HasCloseBrace(text[j]) /\ text[j + 1] = "fence"}
    IN IF i + 1 <= Len(text) /\ text[i] = "fence" /\ HasOpenBrace(text[i + 1]) /\ ends # {}
       THEN CHOOSE j \in ends : \A k \in ends : j <= k
       ELSE 0

\* re.finditer: the groups of the non-overlapping matches from piece i on
RECURSIVE FenceMatches(_, _)
FenceMatches(text, i) ==
    IF i > Len(text) THEN <<>>
    ELSE LET j == FenceMatchEnd(text, i)
         IN IF j = 0 THEN FenceMatches(text, i + 1)
            ELSE <<SubSeq(text, i + 1, j)>> \o FenceMatches(text, j + 2)

\* text[start : end + 1] from the first "{" to the last "}", when end > start
OutermostSpan(text) ==
    LET opens == {i \in 1..Len(text) : HasOpenBrace(text[i])}
        closes == {i \in 1..Len(text) : HasCloseBrace(text[i])}
        start == CHOOSE i \in opens : \A k \in opens : i <= k
        end == CHOOSE i \in closes : \A k \in closes : k <= i
    IN IF opens # {} /\ closes # {} /\ start <= end
       THEN <<SubSeq(text, start, end)>> ELSE <<>>

\* the object "{W ... W}" stands for: one key whose value is a string
WrapperObject == [NoObject EXCEPT !.confidence = [kind |-> "str", val |-> 0]]

DecidedObject == [NoObject EXCEPT !.decision = "approve"]

\* json.loads(candidate): a candidate starts with "{", so what parses is an
\* object; a string value may hold anything but quotes
JsonLoads(candidate) ==
    CASE candidate = <<"{A}">> -> [valid |-> TRUE, obj |-> DecidedObject]
      [] candidate = <<"{}">> -> [valid |-> TRUE, obj |-> NoObject]
      [] /\ Len(candidate) >= 2
         /\ candidate[1] = "{W" /\ candidate[Len(candidate)] = "W}"
         /\ \A i \in 2..(Len(candidate) - 1) : candidate[i] \in {"fence", "text", "{}", "{x}"}
           -> [valid |-> TRUE, obj |-> WrapperObject]
      [] OTHER -> [valid |-> FALSE, obj |-> NoObject]

\* Variant of CandidateSpans that tries the outermost span first
CandidateSpansOutermostFirst(text) == OutermostSpan(text) \o FenceMatches(text, 1)

\* candidates: the fence matches, then the outermost span
CandidateSpans(text) == FenceMatches(text, 1) \o OutermostSpan(text)

\* _parse_agent_result(text) on a completion text
CallParseText(text) ==
    /\ fn.op = "none"
    /\ \E spans \in {CandidateSpans(text)} :
         \E candidates \in {[i \in 1..Len(spans) |-> JsonLoads(spans[i])]} :
            \E parsed \in {_parse_agent_result(candidates)} :
               fn' = [fn EXCEPT !.op = "parse_text", !.completion = text,
                                !.text = candidates, !.exc = parsed.exc,
                                !.result = parsed.obj]
    /\ UNCHANGED nonFnVars

\* ------------------------------------------------------------------------
\* Chunking (src/icpa/processing/handlers.py: chunk_text;
\* src/icpa/ingestion/handlers.py: _chunk_text)
\* ------------------------------------------------------------------------
ChunkFunctions == {"chunk_text", "_chunk_text"}

\* a text of n characters, each character told apart by its position
ChunkTextOf(n) == [i \in 1..n |-> i]

Min(a, b) == IF a <= b THEN a ELSE b

\* Variant of NextStart that begins the next chunk where the last one ended
NextStartAtEnd(f, end, overlap) == end

\* start = end - overlap (chunk_text), start = max(0, end - overlap) (_chunk_text)
NextStart(f, end, overlap) ==
    IF f = "chunk_text" THEN end - overlap ELSE Max(0, end - overlap)

\* the calls: every text length, chunk size S and overlap O with 0 <= O < S
ChunkCalls ==
    {[f |-> f, text |-> ChunkTextOf(n), size |-> sz, overlap |-> o,
      pc |-> "loop", start |-> 0, chunks |-> <<>>] :
        f \in ChunkFunctions, n \in 0..MaxChunkTextLen, sz \in 1..MaxChunkSize,
        o \in 0..(MaxChunkSize - 1)}

\* the while condition fails (for _chunk_text also: the text is empty)
ChunkReturn ==
    /\ chunker.pc = "loop"
    /\ ~(chunker.start < Len(chunker.text))
    /\ chunker' = [chunker EXCEPT !.pc = "done"]
    /\ UNCHANGED nonChunkVars

\* one iteration of the while loop
ChunkStep ==
    /\ chunker.pc = "loop"
    /\ chunker.start < Len(chunker.text)
    /\ LET end == Min(chunker.start + chunker.size, Len(chunker.text))
           chunk == [offset |-> chunker.start,
                     text |-> SubSeq(chunker.text, chunker.start + 1, end)]
       IN chunker' = [chunker EXCEPT
                        !.chunks = Append(@, chunk),
                        !.pc = IF end = Len(chunker.text) THEN "done" ELSE "loop",
                        !.start = IF end = Len(chunker.text) THEN @
                                  ELSE NextStart(chunker.f, end, chunker.overlap)]
    /\ UNCHANGED nonChunkVars

\* ------------------------------------------------------------------------
\* Router (src/icpa/orchestration/router_lambda.py)
\* ------------------------------------------------------------------------
\* HITL_CLAIM_AMOUNT_THRESHOLD is imported from icpa.constants; the routing is
\* checked for a value below and a value among the modelled amounts
Thresholds == {1000, 5000}

\* event["claim_amount"]: absent, a number, a string that float() accepts
\* after strip(), a blank string, a string float() rejects
ClaimAmounts ==
    {[kind |-> "missing", val |-> 0], [kind |-> "num", val |-> 5000],
     [kind |-> "num", val |-> 5001], [kind |-> "str", val |-> 5001],
     [kind |-> "blank", val |-> 0], [kind |-> "bad", val |-> 0]}

PolicyStates == {MISSING, "London", "Bristol"}

RouterEvents ==
    [claim_id : ClaimIds \cup {MISSING}, claim_amount : ClaimAmounts,
     policy_state : PolicyStates]

\* _parse_claim_amount: the amount, or the exception float() raises
_parse_claim_amount(raw_amount) ==
    CASE raw_amount.kind \in {"missing", "blank"} -> [exc |-> "none", val |-> 0]
      [] raw_amount.kind \in {"num", "str"} -> [exc |-> "none", val |-> raw_amount.val]
      [] OTHER -> [exc |-> "ValueError", val |-> 0]

\* Variant of RouteOf that sends London claims to review
RouteOfByState(ev, claim_amount) ==
    IF claim_amount > threshold \/ ev.policy_state = "London"
    THEN [target_agent |-> "HITL", reason |-> "AMOUNT_OVER_THRESHOLD",
          sub_state |-> "ROUTED_TO_HITL"]
    ELSE [target_agent |-> "FRAUD_AGENT", reason |-> "DEFAULT",
          sub_state |-> "ROUTED_TO_FRAUD_AGENT"]

\* the branch on the amount
RouteOf(ev, claim_amount) ==
    IF claim_amount > threshold
    THEN [target_agent |-> "HITL", reason |-> "AMOUNT_OVER_THRESHOLD",
          sub_state |-> "ROUTED_TO_HITL"]
    ELSE [target_agent |-> "FRAUD_AGENT", reason |-> "DEFAULT",
          sub_state |-> "ROUTED_TO_FRAUD_AGENT"]

Runs == 1..2

NoRouting == [kind |-> "none", target_agent |-> NULL, reason |-> NULL]

\* handler(event): parse the amount, save the claim state, return the route
RouteClaim(i) ==
    /\ router[i].result.kind = "none"
    /\ LET ev == router[i].event
           parsed == _parse_claim_amount(ev.claim_amount)
           route == RouteOf(ev, parsed.val)
           writes == claimsTableConfigured /\ parsed.exc = "none"
       IN /\ router' = [router EXCEPT ![i].result =
                          IF parsed.exc # "none"
                          THEN [NoRouting EXCEPT !.kind = parsed.exc]
                          ELSE IF claimsTableConfigured /\ ~db_available
                          THEN [NoRouting EXCEPT !.kind = "ClientError"]
                          ELSE [kind |-> "returned", target_agent |-> route.target_agent,
                                reason |-> route.reason]]
          /\ claims' = IF writes /\ db_available /\ ev.claim_id \in ClaimIds
                       THEN [claims EXCEPT ![ev.claim_id] =
                               [save_claim_state(@, "PROCESSING", NULL, UpdatedAt(i))
                                  EXCEPT !.sub_state = route.sub_state]]
                       ELSE claims
    /\ UNCHANGED <<threshold, db_available>>
    /\ UNCHANGED <<claimsTableConfigured, event, pay, transfers, termCalls, termResult>>
    /\ UNCHANGED nonRouterVars

\* ------------------------------------------------------------------------
\* Orchestration state machine (infra/stacks/foundation_stack.py)
\* ------------------------------------------------------------------------
\* extract_task.add_retry(..., max_attempts=3)
ExtractMaxAttempts == 3

\* assemble_task.add_retry(errors=["States.ALL"], ..., max_attempts=3)
AssembleMaxAttempts == 3

\* how a task ends: "retryable" is an error the task's retrier names
TaskOutcomes == {"ok", "retryable", "error"}

\* $.decision.recommendation as the decision engine returns it; absent when
\* it returns {"status": "error", ...}
Recommendations == {MISSING, "APPROVE", "REVIEW", "DENY", "BLOCKED", "PASS"}

\* claim records a workflow run can start from: none, the one ingestion
\* wrote, the one an earlier run left
WfItems(c) ==
    {NoItem, [NoItem EXCEPT !.exists = TRUE, !.status = "INTAKE"],
     [NoItem EXCEPT !.exists = TRUE, !.status = "NEEDS_REVIEW",
                    !.context_bundle_s3_key = BundleKey(c)]}

IdleWf ==
    [pc |-> "idle", claim_uuid |-> MISSING, retries |-> 0,
     recommendation |-> MISSING, target |-> NULL, prior_status |-> NULL,
     failed_in |-> "none"]

WfUnchanged ==
    /\ UNCHANGED <<claimsTableConfigured, event, pay, transfers, termCalls, termResult>>
    /\ UNCHANGED nonWfVars

\* the execution ends FAILED in the named state
ExecutionFailed(state) == [wf EXCEPT !.pc = "failed", !.failed_in = state]

\* start_execution, then "Wait For Uploads"
StartExecution(c) ==
    /\ wf.pc = "idle"
    /\ wf' = [wf EXCEPT !.pc = "extract", !.claim_uuid = c,
                        !.prior_status = claims[c].status]
    /\ UNCHANGED claims
    /\ WfUnchanged

\* "Extract Document": retried on throttling errors only, no catch
ExtractDocument(outcome) ==
    /\ wf.pc = "extract"
    /\ wf' = CASE outcome = "ok" -> [wf EXCEPT !.pc = "assemble", !.retries = 0]
               [] outcome = "retryable" /\ wf.retries < ExtractMaxAttempts ->
                    [wf EXCEPT !.retries = @ + 1]
               [] OTHER -> ExecutionFailed("Extract Document")
    /\ UNCHANGED claims
    /\ WfUnchanged

\* "Assemble Context": every error is retried, no catch
AssembleContext(outcome) ==
    /\ wf.pc = "assemble"
    /\ wf' = CASE outcome = "ok" -> [wf EXCEPT !.pc = "evaluate", !.retries = 0]
               [] wf.retries < AssembleMaxAttempts -> [wf EXCEPT !.retries = @ + 1]
               [] OTHER -> ExecutionFailed("Assemble Context")
    /\ UNCHANGED claims
    /\ WfUnchanged

\* "Evaluate Result": no retry; add_catch sends every error to "Set Error Status"
EvaluateResult(outcome, recommendation) ==
    /\ wf.pc = "evaluate"
    /\ wf' = IF outcome = "ok"
             THEN [wf EXCEPT !.pc = "choice", !.recommendation = recommendation]
             ELSE [wf EXCEPT !.pc = "set_error", !.failed_in = "Evaluate Result"]
    /\ UNCHANGED claims
    /\ WfUnchanged

\* Variant of ChoiceTarget whose default branch is the approve chain
ChoiceTargetDefaultApprove(recommendation) ==
    CASE recommendation = "APPROVE" -> "APPROVED"
      [] recommendation = "REVIEW" -> "NEEDS_REVIEW"
      [] recommendation = "DENY" -> "DENIED"
      [] OTHER -> "APPROVED"

\* the rules of "Decision Choice" in order, then otherwise(review_chain);
\* the value is the status the chosen chain writes
ChoiceTarget(recommendation) ==
    CASE recommendation = "APPROVE" -> "APPROVED"
      [] recommendation = "REVIEW" -> "NEEDS_REVIEW"
      [] recommendation = "DENY" -> "DENIED"
      [] OTHER -> "NEEDS_REVIEW"

\* "Decision Choice": a missing $.decision.recommendation is a runtime error
DecisionChoice ==
    /\ wf.pc = "choice"
    /\ wf' = IF wf.recommendation = MISSING
             THEN ExecutionFailed("Decision Choice")
             ELSE [wf EXCEPT !.pc = "set_status",
                             !.target = ChoiceTarget(wf.recommendation)]
    /\ UNCHANGED claims
    /\ WfUnchanged

\* "Set Approved" / "Set Review Needed" / "Set Denied" inside the execution
SetDecisionStatus(ok) ==
    /\ wf.pc = "set_status"
    /\ IF ok
       THEN /\ claims' = [claims EXCEPT ![wf.claim_uuid] =
                            [@ EXCEPT !.exists = TRUE, !.status = wf.target,
                                      !.context_bundle_s3_key = BundleKey(wf.claim_uuid)]]
            /\ wf' = [wf EXCEPT !.pc = "emit"]
       ELSE /\ UNCHANGED claims
            /\ wf' = ExecutionFailed("Set " \o wf.target)
    /\ WfUnchanged

\* "Set Error Status": the last state of the catch branch
SetErrorStatus(ok) ==
    /\ wf.pc = "set_error"
    /\ IF ok
       THEN /\ claims' = [claims EXCEPT ![wf.claim_uuid] =
                            [@ EXCEPT !.exists = TRUE, !.status = "ERROR_REVIEW"]]
            /\ wf' = [wf EXCEPT !.pc = "succeeded"]
       ELSE /\ UNCHANGED claims
            /\ wf' = ExecutionFailed("Set Error Status")
    /\ WfUnchanged

\* $.decision.payout_gbp in pence: the amount of the extracted facts for the
\* decision APPROVE, 0.0 for every other decision
DecisionPayout(decision) == IF decision = "APPROVE" THEN 45000 ELSE 0

\* "Emit Decision Event" inside the execution: the detail's status is
\* $.decision.decision, which the decision engine sets to the same value as
\* $.decision.recommendation
EmitDecisionEventTask(ok) ==
    /\ wf.pc = "emit"
    /\ IF ok
       THEN /\ wf' = [wf EXCEPT !.pc = "succeeded"]
            /\ event' = [published |-> TRUE, claim_uuid |-> wf.claim_uuid,
                         status |-> wf.recommendation,
                         payout_gbp |-> [kind |-> "num",
                                         val |-> DecisionPayout(wf.recommendation)]]
       ELSE /\ wf' = ExecutionFailed("Emit Decision Event")
            /\ UNCHANGED event
    /\ UNCHANGED <<claims, claimsTableConfigured, pay, transfers, termCalls, termResult>>
    /\ UNCHANGED nonWfVars

\* "PayoutRule": detail-type ClaimDecision with detail.status APPROVED
PayoutRuleMatches(detail) == detail.status \in {"APPROVED"}

\* the rule's target: the payment handler is invoked with a matching event
PayoutRuleDeliver(p) == PayoutRuleMatches(event) /\ PayoutReceive(p)

WfClaimsInit ==
    /\ claims \in [ClaimIds -> UNION {WfItems(c) : c \in ClaimIds}]
    /\ \A c \in ClaimIds : claims[c] \in WfItems(c)

WfIdle == wf = IdleWf

\* ------------------------------------------------------------------------
\* Prompt assembly (src/icpa/decision/agents.py: BedrockAgent.invoke)
\* ------------------------------------------------------------------------
MaxTemplateLen == 2
MaxValueLen == 1

\* context_data keys in insertion order: decision_handler sets claim_documents
\* and claim_metadata first and adds claim_summary after the summarization
ContextKeys == <<"claim_documents", "claim_metadata", "claim_summary">>

\* f"{{{k}}}"
PlaceholderOf(k) == "{" \o k \o "}"

\* A text is a sequence of pieces: plain text or the text of a placeholder
Pieces == {"text"} \cup {PlaceholderOf(ContextKeys[i]) : i \in 1..Len(ContextKeys)}

PieceTexts(n) == UNION {[1..m -> Pieces] : m \in 0..n}

RECURSIVE Flatten(_)
Flatten(seqs) == IF seqs = <<>> THEN <<>> ELSE Head(seqs) \o Flatten(Tail(seqs))

\* s.replace(old, new), one pass over s
StrReplace(s, old, new) ==
    Flatten([i \in 1..Len(s) |-> IF s[i] = old THEN new ELSE <<s[i]>>])

\* the agents decision_handler invokes, by the number of context keys set
\* when each is invoked
AgentKeyCounts == {2, 3}

IdlePrompt(template, context, n) ==
    [pc |-> "format", system_prompt |-> template, context_data |-> context,
     keys |-> n, k |-> 1, formatted_prompt |-> template]

\* one iteration of: for k, v in context_data.items()
FormatStep ==
    /\ prompt.pc = "format"
    /\ prompt.k <= prompt.keys
    /\ prompt' = [prompt EXCEPT
                    !.formatted_prompt =
                       StrReplace(@, PlaceholderOf(ContextKeys[prompt.k]),
                                  prompt.context_data[prompt.k]),
                    !.k = @ + 1]
    /\ UNCHANGED nonPromptVars

\* the loop ends; the formatted prompt becomes the user message
FormatDone ==
    /\ prompt.pc = "format"
    /\ prompt.k > prompt.keys
    /\ prompt' = [prompt EXCEPT !.pc = "formatted"]
    /\ UNCHANGED nonPromptVars

PromptInit ==
    \E template \in PieceTexts(MaxTemplateLen), n \in AgentKeyCounts,
       context \in [1..Len(ContextKeys) -> PieceTexts(MaxValueLen)] :
        prompt = IdlePrompt(template, context, n)

PromptIdle == prompt = IdlePrompt(<<>>, [i \in 1..Len(ContextKeys) |-> <<>>], 2)

\* ------------------------------------------------------------------------
\* Manual override (src/icpa/api/handlers.py: manual_override_handler)
\* ------------------------------------------------------------------------
OverrideActions == {"FORCE_APPROVE", "CONFIRM_DENIAL"}

\* payout_gbp_override of the request body, in pence, when the body has one
PayoutOverrides == {[given |-> FALSE, val |-> 0], [given |-> TRUE, val |-> 84952]}

\* claim_record.get('payout_gbp', 0.0), in pence
RecordedPayouts == {0, 15000}

IdleOverride ==
    [code |-> 0, status |-> NULL, emitted |-> FALSE, payout_gbp |-> 0]

\* Step 4: new status and payout of a validated request
OverrideStatus(action) == IF action = "FORCE_APPROVE" THEN "APPROVED" ELSE "DENIED"

OverridePayout(action, payout_override, recorded) ==
    IF action = "FORCE_APPROVE"
    THEN IF payout_override.given THEN payout_override.val ELSE recorded
    ELSE 0

\* one validated request: 404 without a claim record, else the status update
\* and the ManualOverride event
ManualOverride(c, action, payout_override, recorded) ==
    /\ override.code = 0
    /\ IF ~claims[c].exists
       THEN /\ override' = [IdleOverride EXCEPT !.code = 404]
            /\ UNCHANGED claims
       ELSE /\ claims' = [claims EXCEPT ![c] =
                            [@ EXCEPT !.status = OverrideStatus(action),
                                      !.updated_at = UpdatedAt(1)]]
            /\ override' = [code |-> 200, status |-> OverrideStatus(action),
                            emitted |-> TRUE,
                            payout_gbp |-> OverridePayout(action, payout_override, recorded)]
    /\ UNCHANGED <<claimsTableConfigured, event, pay, transfers, termCalls, termResult>>
    /\ UNCHANGED nonOverrideVars

OverrideIdle == override = IdleOverride

\* ------------------------------------------------------------------------
\* One pipeline run: "Extract Document" then "Assemble Context"
\* (infra/stacks/foundation_stack.py; src/icpa/processing/handlers.py;
\* src/icpa/context/assembler.py)
\* ------------------------------------------------------------------------
\* $$.Execution.StartTime of the run, the time an earlier run wrote its
\* extracts and the time this run writes its extracts
RunTimes == [start |-> 2, earlier |-> 1, write |-> 3]

\* the objects under <claim>/extracts/ in key order: one <doc_id>.txt per
\* extract in the clean store; a cached document's object is the one an
\* earlier run wrote, the others were put by this run's process_document
RunListing ==
    LET stored == {i \in 1..Len(documents) : \E e \in clean_extracts : e.doc_id = i}
        keys == InOrder(stored)
    IN [k \in 1..Len(keys) |->
          [LastModified |-> IF documents[keys[k]].cached THEN RunTimes.earlier
                           ELSE RunTimes.write,
           external_id |-> MISSING, text |-> <<>>, folder |-> FALSE,
           priority_key |-> "none", chunk_len |-> 0, date |-> "9999-99-99",
           doc_id |-> keys[k]]]

\* list_objects_v2 over the extracts prefix sees the clean store as it is
ListExtracts ==
    /\ asm.pc = "idle"
    /\ extracts # RunListing
    /\ extracts' = RunListing
    /\ UNCHANGED <<execution_start_time, ExternalIdIndex, bundles, asm>>
    /\ UNCHANGED finVars
    /\ UNCHANGED nonAsmVars

\* "Assemble Context" follows "Extract Document"
AssembleAfterExtract(c) ==
    /\ proc.pc = "done"
    /\ proc.claim_uuid = c
    /\ extracts = RunListing
    /\ Assemble(c)

AsmRunInit ==
    /\ extracts = RunListing
    /\ execution_start_time = RunTimes.start
    /\ ExternalIdIndex = [e \in ExternalIds |-> <<>>]
    /\ bundles = {}
    /\ asm = IdleAsm

\* ------------------------------------------------------------------------
\* Idempotency check (src/icpa/db_client.py: DatabaseClient.check_idempotency)
\* ------------------------------------------------------------------------
Callers == 1..MaxCallers

RequestHashes == {"h1", "h2"}

\* what put_item meets: the table answers, or another ClientError
PutOutcomes == {"answered", "ClientError"}

IdleCall == [req_hash |-> NULL, result |-> "none"]

\* Variant of ConditionHolds for a put without the condition expression
ConditionHoldsAlways(table, req_hash) == TRUE

\* ConditionExpression="attribute_not_exists(PK)" on the item REQ#<req_hash>
ConditionHolds(table, req_hash) == req_hash \notin table

\* one call: without the table True at once; else the conditional put, True
\* when it wrote, False on ConditionalCheckFailedException, any other
\* ClientError is raised
check_idempotency(k, req_hash, outcome) ==
    /\ idem.calls[k].result = "none"
    /\ IF ~idem.configured
       THEN idem' = [idem EXCEPT !.calls[k] = [req_hash |-> req_hash, result |-> "True"]]
       ELSE IF outcome = "ClientError"
       THEN idem' = [idem EXCEPT !.calls[k] = [req_hash |-> req_hash, result |-> "raised"]]
       ELSE IF ConditionHolds(idem.table, req_hash)
       THEN idem' = [idem EXCEPT !.table = @ \cup {req_hash},
                                 !.calls[k] = [req_hash |-> req_hash, result |-> "True"]]
       ELSE idem' = [idem EXCEPT !.calls[k] = [req_hash |-> req_hash, result |-> "False"]]
    /\ UNCHANGED nonIdemVars

\* the table's time-to-live removes an entry whose expires_at has passed
ExpireEntry(req_hash) ==
    /\ req_hash \in idem.table
    /\ idem' = [idem EXCEPT !.table = @ \ {req_hash}, !.expired = @ \cup {req_hash}]
    /\ UNCHANGED nonIdemVars

IdemInit ==
    /\ idem \in [configured : BOOLEAN, table : {{}}, expired : {{}},
                 calls : {[k \in Callers |-> IdleCall]}]

IdemIdle ==
    idem = [configured |-> TRUE, table |-> {}, expired |-> {},
            calls |-> [k \in Callers |-> IdleCall]]

\* ------------------------------------------------------------------------
\* Specifications
\* ------------------------------------------------------------------------
ClaimsInit == claims = [c \in ClaimIds |-> NoItem]

PayInit ==
    /\ event = NoEvent
    /\ pay = [p \in Deliveries |-> IdlePay]
    /\ transfers = <<>>

TermInit ==
    /\ claimsTableConfigured \in BOOLEAN
    /\ termCalls = 0
    /\ termResult = NoTermResult

TermIdle ==
    /\ claimsTableConfigured = TRUE
    /\ termCalls = 0
    /\ termResult = NoTermResult

AgentInit ==
    /\ agent_type \in AgentTypes
    /\ parse_retries \in 0..MaxParseRetries
    /\ agent = AgentStart

AgentIdle ==
    /\ agent_type = NULL
    /\ parse_retries = 0
    /\ agent = AgentStart

IdInit ==
    /\ mappings = [e \in ExternalIds |-> NoMapping]
    /\ resolvers = [r \in Resolvers |-> IdleResolver]

TrigInit ==
    /\ triggerRule \in {"named", "count"}
    /\ received = [c \in InternalIds |-> {}]
    /\ executions = [c \in InternalIds |-> "NONE"]
    /\ runs = [c \in InternalIds |-> 0]
    /\ arrivals = [a \in Arrivals |-> IdleArrival]

TrigIdle ==
    /\ triggerRule = "count"
    /\ received = [c \in InternalIds |-> {}]
    /\ executions = [c \in InternalIds |-> "NONE"]
    /\ runs = [c \in InternalIds |-> 0]
    /\ arrivals = [a \in Arrivals |-> IdleArrival]

RedactInit ==
    /\ entities_found \in SpanLists
    /\ redact = [pc |-> "detected", merged |-> <<>>]

RedactIdle ==
    /\ entities_found = <<>>
    /\ redact = [pc |-> "detected", merged |-> <<>>]

AsmInit ==
    /\ extracts \in ExtractListings
    /\ execution_start_time \in StartTimes
    /\ ExternalIdIndex \in [ExternalIds -> UNION {QueryResults(e) : e \in ExternalIds}]
    /\ \A e \in ExternalIds : ExternalIdIndex[e] \in QueryResults(e)
    /\ bundles = {}
    /\ asm = IdleAsm

\* listings whose documents carry text and no external id
AsmTextInit ==
    /\ extracts \in TextListings
    /\ execution_start_time \in StartTimes
    /\ ExternalIdIndex = [e \in ExternalIds |-> <<>>]
    /\ bundles = {}
    /\ asm = IdleAsm

\* listings whose documents differ in key, length and date
AsmBundleInit ==
    /\ extracts \in BundleListings
    /\ execution_start_time \in StartTimes
    /\ ExternalIdIndex = [e \in ExternalIds |-> <<>>]
    /\ bundles = {}
    /\ asm = IdleAsm

AsmIdle ==
    /\ extracts = <<>>
    /\ execution_start_time = 0
    /\ ExternalIdIndex = [e \in ExternalIds |-> <<>>]
    /\ bundles = {}
    /\ asm = IdleAsm

\* a cached document's extract is already in the clean store
ProcInit ==
    /\ documents \in DocumentListings
    /\ clean_extracts = {ExtractOf(i, Len(documents[i].chunks), Len(documents[i].chunks)) :
                            i \in {j \in 1..Len(documents) : documents[j].cached}}
    /\ doc_cache = {j \in 1..Len(documents) : documents[j].cached}
    /\ proc = IdleProc

ProcIdle ==
    /\ documents = <<>>
    /\ clean_extracts = {}
    /\ doc_cache = {}
    /\ proc = IdleProc

IngInit == ingest = <<>>

DecInit == dec = IdleDec

PhiInit == \E text \in PhiTexts : phi = IdlePhi(text)

PhiIdle == phi = IdlePhi(<<>>)

FnInit == fn = IdleFn

\* Variant of ChunkInit that also admits an overlap as large as the chunk size
ChunkInitAnyOverlap == chunker \in {call \in ChunkCalls : call.overlap <= call.size}

\* the calls made: overlap smaller than the chunk size
ChunkInit == chunker \in {call \in ChunkCalls : call.overlap < call.size}

ChunkIdle ==
    chunker = [f |-> "chunk_text", text |-> <<>>, size |-> 1, overlap |-> 0,
               pc |-> "loop", start |-> 0, chunks |-> <<>>]

RouterInit ==
    /\ threshold \in Thresholds
    /\ db_available \in BOOLEAN
    /\ router \in [Runs -> [event : RouterEvents, result : {NoRouting}]]

RouterIdle ==
    /\ threshold = 5000
    /\ db_available = TRUE
    /\ router = [i \in Runs |->
                   [event |-> [claim_id |-> MISSING,
                               claim_amount |-> [kind |-> "missing", val |-> 0],
                               policy_state |-> MISSING],
                    result |-> NoRouting]]

MoreIdle == WfIdle /\ PromptIdle /\ OverrideIdle /\ IdemIdle

LaterIdle == ProcIdle /\ IngInit /\ DecInit /\ PhiIdle /\ FnInit /\ ChunkIdle /\ RouterIdle /\ MoreIdle

\* Payout: one finalization event, delivered at least once
Init == ClaimsInit /\ PayInit /\ TermIdle /\ AgentIdle /\ IdInit /\ TrigIdle /\ RedactIdle /\ AsmIdle /\ LaterIdle

Next ==
    \/ \E c \in ClaimInputs, s \in StatusInputs, a \in PayoutInputs :
          EmitDecisionEvent(c, s, a)
    \/ \E p \in Deliveries : PayoutReceive(p)
    \/ \E p \in Deliveries : PayoutIdempotencyCheck(p)
    \/ \E p \in Deliveries : PayoutExecute(p)
    \/ \E p \in Deliveries : PayoutUpdate(p)
    \/ \E c \in ClaimIds, s \in DecisionStatuses : SfnSetDecisionStatus(c, s)

Spec == Init /\ [][Next]_vars

\* Terminal-state persistence after the workflow's status tasks
InitTerminal ==
    ClaimsInit /\ PayInit /\ TermInit /\ AgentIdle /\ IdInit /\ TrigIdle /\ RedactIdle /\ AsmIdle /\ LaterIdle

NextTerminal ==
    \/ \E c \in ClaimIds, s \in DecisionStatuses : SfnSetDecisionStatus(c, s)
    \/ \E c \in ClaimInputs, d \in DecisionInputs, st \in StateInputs :
          TerminalStateHandler(c, d, st)

SpecTerminal == InitTerminal /\ [][NextTerminal]_vars

\* One invocation of the agent wrapper
InitAgent ==
    ClaimsInit /\ PayInit /\ TermIdle /\ AgentInit /\ IdInit /\ TrigIdle /\ RedactIdle /\ AsmIdle /\ LaterIdle

NextAgent ==
    \/ \E completion_text \in Completions : AgentAttempt(completion_text)
    \/ AgentInvokeFails
    \/ AgentFinish

SpecAgent == InitAgent /\ [][NextAgent]_vars

\* Concurrent resolve_or_create calls
InitResolver ==
    ClaimsInit /\ PayInit /\ TermIdle /\ AgentIdle /\ IdInit /\ TrigIdle /\ RedactIdle /\ AsmIdle /\ LaterIdle

NextResolver ==
    \/ \E r \in Resolvers, e \in ExternalIds : ResolveBegin(r, e)
    \/ \E r \in Resolvers : ResolveConditionalWrite(r)
    \/ \E r \in Resolvers : ResolveReadAfterConflict(r)

SpecResolver == InitResolver /\ [][NextResolver]_vars

\* Documents arriving for claims, each arrival attempting the pipeline start
InitTrigger ==
    ClaimsInit /\ PayInit /\ TermIdle /\ AgentIdle /\ IdInit /\ TrigInit /\ RedactIdle /\ AsmIdle /\ LaterIdle

NextTrigger ==
    \/ \E a \in Arrivals, c \in InternalIds, ty \in DocTypes : RecordDocument(a, c, ty)
    \/ \E a \in Arrivals : MaybeTriggerPipeline(a)
    \/ \E c \in InternalIds : ExecutionFinishes(c)
    \/ \E c \in InternalIds : clean_execution(c)

SpecTrigger == InitTrigger /\ [][NextTrigger]_vars

\* The span merge of redact_phi over every bounded list of raw spans
InitRedact ==
    ClaimsInit /\ PayInit /\ TermIdle /\ AgentIdle /\ IdInit /\ TrigIdle /\ RedactInit /\ AsmIdle /\ LaterIdle

NextRedact == RedactMerge

SpecRedact == InitRedact /\ [][NextRedact]_vars

\* One context assembly over every bounded listing and index content
InitAssemble ==
    ClaimsInit /\ PayInit /\ TermIdle /\ AgentIdle /\ IdInit /\ TrigIdle /\ RedactIdle /\ AsmInit /\ LaterIdle

NextAssemble == \E c \in ClaimInputs : Assemble(c)

SpecAssemble == InitAssemble /\ [][NextAssemble]_vars

\* One context assembly over every bounded listing of texts
InitContextStatus ==
    ClaimsInit /\ PayInit /\ TermIdle /\ AgentIdle /\ IdInit /\ TrigIdle /\ RedactIdle
    /\ AsmTextInit /\ LaterIdle

SpecContextStatus == InitContextStatus /\ [][NextAssemble]_vars

\* One assembly over every bounded listing of documents of different sizes
InitBundle ==
    ClaimsInit /\ PayInit /\ TermIdle /\ AgentIdle /\ IdInit /\ TrigIdle /\ RedactIdle
    /\ AsmBundleInit /\ LaterIdle

SpecBundle == InitBundle /\ [][NextAssemble]_vars

\* Document arrivals at ingestion, interleaved with the workflow's status writes
InitIngestion ==
    ClaimsInit /\ PayInit /\ TermInit /\ AgentIdle /\ IdInit /\ TrigIdle /\ RedactIdle
    /\ AsmIdle /\ LaterIdle

NextIngestion ==
    \/ \E c \in ClaimIds, outcome \in RecordOutcomes : IngestRecord(c, outcome)
    \/ \E c \in ClaimIds, s \in DecisionStatuses : SfnSetDecisionStatus(c, s)

SpecIngestion == InitIngestion /\ [][NextIngestion]_vars

\* One run of the decision pipeline over every response of the three agents
InitDecision ==
    ClaimsInit /\ PayInit /\ TermIdle /\ AgentIdle /\ IdInit /\ TrigIdle /\ RedactIdle
    /\ AsmIdle /\ LaterIdle

NextDecision ==
    \/ \E c \in ClaimInputs, bundle_found \in BOOLEAN : DecisionStart(c, bundle_found)
    \/ \E response \in ResponsesOver(SummaryObjects) : InvokeSummarization(response)
    \/ \E response \in ResponsesOver(FraudObjects) : InvokeFraud(response)
    \/ \E response \in ResponsesOver(AdjudicationObjects) : InvokeAdjudication(response)

SpecDecision == InitDecision /\ [][NextDecision]_vars

\* Repeated redaction of a text, the detector answering freely each time
InitRedactText ==
    ClaimsInit /\ PayInit /\ TermIdle /\ AgentIdle /\ IdInit /\ TrigIdle /\ RedactIdle
    /\ AsmIdle /\ ProcIdle /\ IngInit /\ DecInit /\ PhiInit /\ FnInit /\ ChunkIdle /\ RouterIdle /\ MoreIdle

NextRedactText == \E entities \in PhiDetections(phi.text) : RedactPass(entities)

SpecRedactText == InitRedactText /\ [][NextRedactText]_vars

\* One call of the parser or the normalizer over every bounded input
InitAgentFunctions ==
    ClaimsInit /\ PayInit /\ TermIdle /\ AgentIdle /\ IdInit /\ TrigIdle /\ RedactIdle
    /\ AsmIdle /\ LaterIdle

NextAgentFunctions ==
    \/ \E result \in ParsedObjects, t \in AgentTypes : CallNormalize(result, t)
    \/ \E text \in Completions : CallParse(text)

SpecAgentFunctions == InitAgentFunctions /\ [][NextAgentFunctions]_vars

\* One call of the parser over every bounded completion text
NextParseText == fn.op = "none" /\ \E text \in CompletionTexts : CallParseText(text)

SpecParseText == InitAgentFunctions /\ [][NextParseText]_vars

\* One call of a chunking function over every bounded text, size and overlap
InitChunking ==
    ClaimsInit /\ PayInit /\ TermIdle /\ AgentIdle /\ IdInit /\ TrigIdle /\ RedactIdle
    /\ AsmIdle /\ ProcIdle /\ IngInit /\ DecInit /\ PhiIdle /\ FnInit /\ ChunkInit /\ RouterIdle /\ MoreIdle

NextChunking == ChunkStep \/ ChunkReturn

SpecChunking == InitChunking /\ [][NextChunking]_vars

\* the loop keeps running: an iteration that can be taken is taken
SpecChunkingFair == SpecChunking /\ WF_vars(NextChunking)

\* Two invocations of the router on every pair of events
InitRouter ==
    ClaimsInit /\ PayInit /\ TermInit /\ AgentIdle /\ IdInit /\ TrigIdle /\ RedactIdle
    /\ AsmIdle /\ ProcIdle /\ IngInit /\ DecInit /\ PhiIdle /\ FnInit /\ ChunkIdle
    /\ RouterInit /\ MoreIdle

NextRouter == \E i \in Runs : RouteClaim(i)

SpecRouter == InitRouter /\ [][NextRouter]_vars

\* One batch-processing invocation over every bounded document listing
InitProcessing ==
    ClaimsInit /\ PayInit /\ TermIdle /\ AgentIdle /\ IdInit /\ TrigIdle /\ RedactIdle /\ AsmIdle
    /\ ProcInit /\ IngInit /\ DecInit /\ PhiIdle /\ FnInit /\ ChunkIdle /\ RouterIdle /\ MoreIdle

NextProcessing ==
    \/ \E c \in ClaimInputs : ProcessingStart(c)
    \/ ProcessDocument
    \/ ProcessingReturn
    \/ ProcessingListFails

SpecProcessing == InitProcessing /\ [][NextProcessing]_vars

\* One execution of the orchestration state machine
InitWorkflow ==
    WfClaimsInit /\ PayInit /\ TermIdle /\ AgentIdle /\ IdInit /\ TrigIdle /\ RedactIdle
    /\ AsmIdle /\ LaterIdle

NextWorkflow ==
    \/ \E c \in ClaimIds : StartExecution(c)
    \/ \E outcome \in TaskOutcomes : ExtractDocument(outcome)
    \/ \E outcome \in TaskOutcomes : AssembleContext(outcome)
    \/ \E outcome \in TaskOutcomes, r \in Recommendations : EvaluateResult(outcome, r)
    \/ DecisionChoice
    \/ \E ok \in BOOLEAN : SetDecisionStatus(ok)
    \/ \E ok \in BOOLEAN : SetErrorStatus(ok)
    \/ \E ok \in BOOLEAN : EmitDecisionEventTask(ok)

SpecWorkflow == InitWorkflow /\ [][NextWorkflow]_vars

\* The formatting loop over every bounded template and context
InitPrompt ==
    ClaimsInit /\ PayInit /\ TermIdle /\ AgentIdle /\ IdInit /\ TrigIdle /\ RedactIdle
    /\ AsmIdle /\ ProcIdle /\ IngInit /\ DecInit /\ PhiIdle /\ FnInit /\ ChunkIdle
    /\ RouterIdle /\ WfIdle /\ PromptInit /\ OverrideIdle /\ IdemIdle

NextPrompt == FormatStep \/ FormatDone

SpecPrompt == InitPrompt /\ [][NextPrompt]_vars

\* A paid claim and the operations that may follow: repeated deliveries of the
\* finalization event, a late document, a terminal-state write, a manual
\* override
LifecycleStatuses == {"APPROVED", "DENIED"}

LifecyclePayouts == {[kind |-> "num", val |-> 99999]}

InitLifecycle ==
    ClaimsInit /\ PayInit /\ TermIdle /\ AgentIdle /\ IdInit /\ TrigIdle /\ RedactIdle
    /\ AsmIdle /\ LaterIdle

NextLifecycle ==
    \/ \E c \in ClaimIds, s \in LifecycleStatuses, a \in LifecyclePayouts :
          EmitDecisionEvent(c, s, a)
    \/ \E p \in Deliveries : PayoutReceive(p)
    \/ \E p \in Deliveries : PayoutIdempotencyCheck(p)
    \/ \E p \in Deliveries : PayoutExecute(p)
    \/ \E p \in Deliveries : PayoutUpdate(p)
    \/ \E c \in ClaimIds : IngestRecord(c, "EXTRACTED")
    \/ \E c \in ClaimIds : TerminalStateHandler(c, "REJECTED", MISSING)
    \/ \E c \in ClaimIds, a \in OverrideActions, o \in PayoutOverrides,
          r \in RecordedPayouts : ManualOverride(c, a, o, r)

SpecLifecycle == InitLifecycle /\ [][NextLifecycle]_vars

\* A workflow run without failures, the event it emits and the payout rule's
\* deliveries of that event
PipelineRecommendations == {"APPROVE", "REVIEW", "DENY", "APPROVED"}

NextPipeline ==
    \/ \E c \in ClaimIds : StartExecution(c)
    \/ ExtractDocument("ok")
    \/ AssembleContext("ok")
    \/ \E r \in PipelineRecommendations : EvaluateResult("ok", r)
    \/ DecisionChoice
    \/ SetDecisionStatus(TRUE)
    \/ EmitDecisionEventTask(TRUE)
    \/ \E p \in Deliveries : PayoutRuleDeliver(p)
    \/ \E p \in Deliveries : PayoutIdempotencyCheck(p)
    \/ \E p \in Deliveries : PayoutExecute(p)
    \/ \E p \in Deliveries : PayoutUpdate(p)

\* every task of the run and every delivery that is due eventually happens
FairPipeline ==
    /\ WF_vars(\E c \in ClaimIds : StartExecution(c))
    /\ WF_vars(ExtractDocument("ok"))
    /\ WF_vars(AssembleContext("ok"))
    /\ WF_vars(\E r \in PipelineRecommendations : EvaluateResult("ok", r))
    /\ WF_vars(DecisionChoice)
    /\ WF_vars(SetDecisionStatus(TRUE))
    /\ WF_vars(EmitDecisionEventTask(TRUE))
    /\ \A p \in Deliveries :
          /\ WF_vars(PayoutRuleDeliver(p))
          /\ WF_vars(PayoutIdempotencyCheck(p))
          /\ WF_vars(PayoutExecute(p))
          /\ WF_vars(PayoutUpdate(p))

SpecPipeline == InitWorkflow /\ [][NextPipeline]_vars /\ FairPipeline

\* One run over every bounded document listing: extraction, then assembly
InitRun ==
    ClaimsInit /\ PayInit /\ TermIdle /\ AgentIdle /\ IdInit /\ TrigIdle /\ RedactIdle
    /\ ProcInit /\ AsmRunInit /\ IngInit /\ DecInit /\ PhiIdle /\ FnInit /\ ChunkIdle
    /\ RouterIdle /\ MoreIdle

NextRun ==
    \/ \E c \in ClaimIds : ProcessingStart(c)
    \/ ProcessDocument
    \/ ProcessingReturn
    \/ ListExtracts
    \/ \E c \in ClaimIds : AssembleAfterExtract(c)

SpecRun == InitRun /\ [][NextRun]_vars

\* Repeated and concurrent idempotency checks
InitIdem ==
    ClaimsInit /\ PayInit /\ TermIdle /\ AgentIdle /\ IdInit /\ TrigIdle /\ RedactIdle
    /\ AsmIdle /\ ProcIdle /\ IngInit /\ DecInit /\ PhiIdle /\ FnInit /\ ChunkIdle
    /\ RouterIdle /\ WfIdle /\ PromptIdle /\ OverrideIdle /\ IdemInit

NextIdem ==
    \/ \E k \in Callers, h \in RequestHashes, outcome \in PutOutcomes :
          check_idempotency(k, h, outcome)
    \/ \E h \in RequestHashes : ExpireEntry(h)

SpecIdem == InitIdem /\ [][NextIdem]_vars

\* ------------------------------------------------------------------------
\* Properties of the payout guard and the terminal-state writer
\* ------------------------------------------------------------------------
IsApproveFamily(s) == s \in {"APPROVED", "APPROVE", "approved", "approve"}

PositiveTransfers(c) ==
    {i \in 1..Len(transfers) : transfers[i].claim = c /\ transfers[i].amount > 0}

\* C1: a finalize call whose status is not approve-family transfers, records
\* and returns an amount of exactly zero, whatever amount came with the event.
C1_NonApprovedPaysZero ==
    [][\A p \in Deliveries :
          /\ (pay[p].pc = "execute" /\ pay'[p].pc = "update"
                 /\ ~IsApproveFamily(event.status))
               => /\ pay'[p].amount = 0
                  /\ transfers'[Len(transfers')].amount = 0
          /\ (pay[p].pc = "update" /\ pay'[p].pc = "done"
                 /\ ~IsApproveFamily(event.status))
               => /\ pay'[p].result = "SUCCESS"
                  /\ pay'[p].amount = 0
                  /\ claims'[event.claim_uuid].final_payout_gbp = "0.0"]_vars

C1_Witness ==
    /\ event.published
    /\ event.status = "DENIED"
    /\ event.payout_gbp = [kind |-> "num", val |-> 99999]
    /\ \E p \in Deliveries : pay[p].result = "SUCCESS" /\ pay[p].amount = 0
    /\ claims["c1"].final_payout_gbp = "0.0"
    /\ claims["c1"].payout_date # 0

\* C2: for every claim, under every interleaving of duplicated deliveries of
\* the finalization event, money is transferred at most once.
C2_PayoutAtMostOnce ==
    \A c \in ClaimIds : Cardinality(PositiveTransfers(c)) <= 1

\* C3: a finalize call that finds the claim already CLOSED_PAID returns the
\* skip result, transfers nothing and leaves the claim record as it was.
C3_PaidClaimIsSkipped ==
    /\ [][\A p \in Deliveries :
            (pay[p].pc = "check" /\ pay'[p].pc # "check"
               /\ claims[event.claim_uuid].status = "CLOSED_PAID")
            => /\ pay'[p].pc = "done"
               /\ pay'[p].result = "SKIPPED"
               /\ transfers' = transfers
               /\ claims' = claims]_vars
    /\ [](\A p \in Deliveries :
            pay[p].current_status = "CLOSED_PAID"
            => /\ pay[p].result = "SKIPPED"
               /\ \A i \in 1..Len(transfers) : transfers[i].by # p)

C3_Witness ==
    /\ \E p, q \in Deliveries :
          /\ pay[p].result = "SUCCESS"
          /\ pay[q].result = "SKIPPED"
          /\ pay[q].current_status = "CLOSED_PAID"
    /\ Len(transfers) = 1
    /\ claims["c1"].status = "CLOSED_PAID"

\* C9: terminal-state resolution maps the approve, deny and flag families to
\* APPROVED, DENIED and FLAGGED, and any other decision is an error that
\* persists nothing.
C9_UnknownDecisionIsError ==
    (termResult.kind # "none" /\ ~Falsy(termResult.claim_id)
       /\ Falsy(termResult.explicit))
    => LET k == StripUpper(termResult.decision)
       IN IF k \in {"APPROVE", "APPROVED"}
             THEN termResult.kind = "returned" /\ termResult.state = "APPROVED"
          ELSE IF k \in {"DENY", "DENIED", "REJECT", "REJECTED"}
             THEN termResult.kind = "returned" /\ termResult.state = "DENIED"
          ELSE IF k \in {"FLAG", "FLAGGED"}
             THEN termResult.kind = "returned" /\ termResult.state = "FLAGGED"
          ELSE termResult.kind = "raised" /\ ~termResult.persisted

\* C10: a finalize or terminal-status write leaves every field it does not
\* own as it was; in particular context_bundle_s3_key keeps its value.
C10_WritePreservesEvidenceLink ==
    [][((termCalls' # termCalls)
          \/ \E p \in Deliveries : pay[p].pc = "update" /\ pay'[p].pc = "done")
        => \A c \in ClaimIds :
              claims'[c].context_bundle_s3_key = claims[c].context_bundle_s3_key]_vars

Returned(e) == {r \in Resolvers : resolvers[r].pc = "done" /\ resolvers[r].external_id = e}

\* C5: all concurrent resolve_or_create calls for one external id return the
\* same internal id, which is the one record the mapping store holds for it.
C5_OneInternalIdPerExternalId ==
    \A e \in ExternalIds :
       /\ \A r1, r2 \in Returned(e) : resolvers[r1].returned = resolvers[r2].returned
       /\ \A r \in Returned(e) :
             /\ mappings[e].exists
             /\ resolvers[r].returned = mappings[e].internal_id
             /\ resolvers[r].returned # NULL
       /\ \A r \in Resolvers : resolvers[r].pc # "fatal"

C5_Witness ==
    /\ Cardinality(Returned("CLM-1")) = MaxResolvers
    /\ \E r \in Returned("CLM-1") : resolvers[r].returned # resolvers[r].new_id
    /\ mappings["CLM-1"].exists
    /\ ~mappings["CLM-2"].exists

StartAttempts(c) ==
    {a \in Arrivals : arrivals[a].internal_id = c
                        /\ arrivals[a].outcome \in {"accepted", "already_running", "error"}}

\* C6: however many documents arrive for a claim, exactly one pipeline run is
\* started for its internal id; every other start attempt ends as
\* already-running, without error and without a second run.
C6_SingletonPipelineStart ==
    \A c \in InternalIds :
       /\ runs[c] <= 1
       /\ (StartAttempts(c) # {}) => runs[c] = 1
       /\ Cardinality({a \in StartAttempts(c) : arrivals[a].outcome = "accepted"}) = runs[c]
       /\ \A a \in StartAttempts(c) : arrivals[a].outcome \in {"accepted", "already_running"}

C6_Witness ==
    /\ runs["c1"] = 1
    /\ Cardinality(StartAttempts("c1")) >= 2
    /\ \E a \in StartAttempts("c1") : arrivals[a].outcome = "already_running"
    /\ Cardinality(received["c1"]) = MaxArrivals

\* ------------------------------------------------------------------------
\* Properties of the redaction merge
\* ------------------------------------------------------------------------
Covered(list) ==
    {x \in 0..TextLen : \E i \in 1..Len(list) :
                           list[i].BeginOffset <= x /\ x < list[i].EndOffset}

Overlapping(a, b) == a.BeginOffset < b.EndOffset /\ b.BeginOffset < a.EndOffset

\* C7: the merged span list is pairwise non-overlapping and covers exactly
\* the character positions covered by the raw spans.
C7_MergedSpansDisjointAndCovering ==
    redact.pc = "merged"
    => /\ \A i, j \in 1..Len(redact.merged) :
             i # j => ~Overlapping(redact.merged[i], redact.merged[j])
       /\ Covered(redact.merged) = Covered(entities_found)

C7_Witness ==
    /\ redact.pc = "merged"
    /\ Len(entities_found) = MaxSpans
    /\ Len(redact.merged) = 2
    /\ \E i, j \in 1..Len(entities_found) :
          /\ i < j
          /\ entities_found[i].BeginOffset > entities_found[j].BeginOffset
          /\ Overlapping(entities_found[i], entities_found[j])
          /\ entities_found[i].EndOffset > entities_found[j].EndOffset

\* ------------------------------------------------------------------------
\* Properties of the context assembler
\* ------------------------------------------------------------------------
\* the external ids found in the metadata of the fetched documents whose
\* canonical internal id is not the claim being assembled
ForeignExternalIds(c) ==
    {e \in ExternalIds :
       /\ \E i \in Fetched(extracts, execution_start_time) : extracts[i].external_id = e
       /\ ExternalIdIndex[e] # <<>>
       /\ CanonicalUuid(ExternalIdIndex[e]) # c}

\* C8: when a document's metadata yields an external id whose canonical
\* internal id is not the one being assembled, assembly aborts and neither
\* writes a bundle nor links one to the claim record.
C8_SplitBrainAborts ==
    (asm.pc = "done" /\ asm.claim_uuid \in ClaimIds
       /\ ForeignExternalIds(asm.claim_uuid) # {})
    => /\ asm.result = "ValueError: Split-Brain"
       /\ bundles = {}
       /\ claims[asm.claim_uuid].context_bundle_s3_key = NULL

\* the fetched documents whose upper-cased text holds one of the keywords
DocsWith(keywords) ==
    {i \in Fetched(extracts, execution_start_time) :
        \E j \in 1..Len(extracts[i].text) : UpperWord(extracts[i].text[j]) \in keywords}

\* a fetched document ends in FIRST and the next fetched one starts with NOTIFICATION
FirstNoticeAcrossDocs ==
    LET F == Fetched(extracts, execution_start_time)
    IN \E i, k \in F :
         /\ i < k /\ \A m \in F : ~(i < m /\ m < k)
         /\ extracts[i].text # <<>> /\ extracts[k].text # <<>>
         /\ extracts[i].text[Len(extracts[i].text)] = "First"
         /\ extracts[k].text[1] = "Notification"

FirstNoticeWithinDoc ==
    \E i \in Fetched(extracts, execution_start_time) :
       \E j \in 1..(Len(extracts[i].text) - 1) :
          extracts[i].text[j] = "First" /\ extracts[i].text[j + 1] = "Notification"

\* C12: fewer than two assembled documents give INCOMPLETE; two or more give
\* COMPLETE exactly when the texts show a first-notice keyword and a
\* monetary-total keyword, PARTIAL_CONTEXT otherwise.
C12_ContextStatusClassification ==
    (asm.pc = "done" /\ asm.result = "success")
    => LET n == Cardinality(Fetched(extracts, execution_start_time))
           first_notice == \/ DocsWith({"FNOL"}) # {}
                           \/ FirstNoticeWithinDoc
                           \/ FirstNoticeAcrossDocs
           total == DocsWith({"INVOICE", "SUBTOTAL", "TOTAL"}) # {}
       IN asm.context_status =
            (IF n < 2 THEN "INCOMPLETE"
             ELSE IF first_notice /\ total THEN "COMPLETE" ELSE "PARTIAL_CONTEXT")

C12_Witness ==
    /\ asm.pc = "done"
    /\ asm.context_status = "COMPLETE"
    /\ Len(extracts) = 2
    /\ extracts[1].text = <<"fnol">>
    /\ extracts[2].text = <<"Invoice">>

\* ------------------------------------------------------------------------
\* Properties of the agent wrapper functions
\* ------------------------------------------------------------------------
\* C17: a result without a decision gets the default of the agent type,
\* CONTINUE for a fraud agent and BLOCKED otherwise; a fraud agent's findings
\* always hold a numeric fraud_score, taken from a numeric top-level
\* confidence when the findings had none.
C17_NormalizeDefaults ==
    fn.op = "normalize"
    => LET fraud == fn.agent_type \in {"FRAUD_AGENT", "fraud_screen"}
       IN /\ fn.input.decision \in {MISSING, NULL}
               => fn.result.decision = (IF fraud THEN "CONTINUE" ELSE "BLOCKED")
          /\ fraud
               => /\ fn.result.structured_findings.kind = "object"
                  /\ fn.result.structured_findings.has_score
                  /\ fn.result.structured_findings.score_numeric
                  /\ (~(fn.input.structured_findings.kind = "object"
                          /\ fn.input.structured_findings.has_score)
                       /\ fn.input.confidence.kind = "num")
                      => fn.result.structured_findings.fraud_score = fn.input.confidence.val

\* C18: a completion in which no candidate is a valid JSON object makes the
\* parser raise; no object, and so no decision, is returned.
C18_NoJsonIsParseFailure ==
    (fn.op = "parse" /\ \A i \in 1..Len(fn.text) : ~fn.text[i].valid)
    => /\ fn.exc = "ValueError"
       /\ fn.result = NoObject

C18_Witness ==
    /\ fn.op = "parse"
    /\ Len(fn.text) = 2
    /\ \A i \in 1..Len(fn.text) : ~fn.text[i].valid
    /\ fn.exc = "ValueError"

\* ------------------------------------------------------------------------
\* Properties of the router
\* ------------------------------------------------------------------------
\* C20: two events with the same claim_id and claim_amount get the same
\* routing result, whatever their other fields.
C20_RoutingDependsOnAmountOnly ==
    (/\ router[1].result.kind # "none"
     /\ router[2].result.kind # "none"
     /\ router[1].event.claim_id = router[2].event.claim_id
     /\ router[1].event.claim_amount = router[2].event.claim_amount)
    => router[1].result = router[2].result

C20_Witness ==
    /\ router[1].result.kind = "returned"
    /\ router[2].result.kind = "returned"
    /\ router[1].event.claim_id = "c1"
    /\ router[2].event.claim_id = "c1"
    /\ router[1].event.claim_amount = [kind |-> "num", val |-> 5000]
    /\ router[2].event.claim_amount = [kind |-> "num", val |-> 5000]
    /\ router[1].event.policy_state = "London"
    /\ router[2].event.policy_state = "Bristol"
    /\ router[1].result.target_agent = "FRAUD_AGENT"

\* ------------------------------------------------------------------------
\* Properties of chunking
\* ------------------------------------------------------------------------
\* the characters (positions of the text) a chunk holds
CharsOf(chunk) == {chunk.text[j] : j \in 1..Len(chunk.text)}

Occurrences(text, piece) ==
    {i \in 1..(Len(text) - Len(piece) + 1) : SubSeq(text, i, i + Len(piece) - 1) = piece}

\* the scenario: spans (6,15,NAME) and (0,20,NAME), overlapping, out of order
ScenarioRedacted ==
    /\ phi.passes >= 1
    /\ phi.input = PhiText
    /\ phi.entities = <<[BeginOffset |-> 6, EndOffset |-> 15, Type |-> "NAME"],
                        [BeginOffset |-> 0, EndOffset |-> 20, Type |-> "NAME"]>>

TotalLiteral == <<"T", "o", "t", "a", "l", ":", " ", "$", "9", "0", "0">>

\* C15 as stated: the scenario merges to (0,20,NAME) and the redacted text
\* has exactly one placeholder and still holds the literal "Total: $900".
C15_ScenarioAsStated ==
    ScenarioRedacted
    => /\ phi.merged = <<[BeginOffset |-> 0, EndOffset |-> 20, Type |-> "NAME"]>>
       /\ Cardinality(Occurrences(phi.first, Placeholder("NAME"))) = 1
       /\ Occurrences(phi.first, TotalLiteral) # {}

\* C15, amended: the scenario merges to (0,20,NAME); the redacted text is the
\* one placeholder followed by the characters from offset 20 on, "l: $900",
\* so the literal "Total: $900" is cut by the span that ends inside it.
C15_ScenarioMergesToOneSpan ==
    ScenarioRedacted
    => /\ phi.merged = <<[BeginOffset |-> 0, EndOffset |-> 20, Type |-> "NAME"]>>
       /\ Cardinality(Occurrences(phi.first, Placeholder("NAME"))) = 1
       /\ phi.first = Placeholder("NAME") \o <<"l", ":", " ", "$", "9", "0", "0">>
       /\ Occurrences(phi.first, TotalLiteral) = {}

C15_Witness ==
    /\ ScenarioRedacted
    /\ phi.passes = 1
    /\ Len(phi.text) = 22

\* C16: redacting a redacted text again gives the same text.
C16_RedactIdempotent ==
    phi.passes >= 2 => phi.text = phi.first

\* ------------------------------------------------------------------------
\* Properties of the decision pipeline
\* ------------------------------------------------------------------------
\* the response of an invoked agent gave no parsed object
Unparsed(response) == response.call = "error" \/ response.shape \in {"no_json", "invalid_json", "non_object"}

\* C14: the outcome is APPROVE with a non-zero payout only when the
\* adjudication completion was parsed with decision APPROVE; an agent whose
\* completion cannot be parsed or whose model call fails yields REVIEW.
C14_NoApprovalFromFailure ==
    /\ (dec.outcome.decision = "APPROVE" /\ dec.outcome.payout_gbp # 0)
         => /\ dec.adjudication.call = "ok"
            /\ dec.adjudication.shape = "object"
            /\ dec.adjudication.obj.decision = "APPROVE"
    /\ Unparsed(dec.summary) => dec.summary_result.decision = "REVIEW"
    /\ Unparsed(dec.fraud) => dec.fraud_result.decision = "REVIEW"
    /\ Unparsed(dec.adjudication)
         => dec.adj_result.decision = "REVIEW" /\ dec.outcome.decision = "REVIEW"
                /\ dec.outcome.payout_gbp = 0

C14_Witness ==
    /\ dec.pc = "done"
    /\ dec.summary.shape = "object"
    /\ dec.summary_result.total_amount = [kind |-> "num", val |-> 45000]
    /\ dec.fraud.call = "error"
    /\ dec.adjudication.shape = "invalid_json"
    /\ dec.outcome.decision = "REVIEW"
    /\ dec.outcome.payout_gbp = 0

\* ------------------------------------------------------------------------
\* Properties of ingestion
\* ------------------------------------------------------------------------
\* C13: recording a document sets the status to INTAKE when the claim has
\* none, and leaves a claim that already has a status exactly as it was.
C13_IntakeOnlyWhenAbsent ==
    [][(Len(ingest') = Len(ingest) + 1)
        => LET c == ingest'[Len(ingest')].claim_id
           IN IF claims[c].status = NULL
              THEN claims'[c].status = "INTAKE"
              ELSE claims'[c] = claims[c]]_vars

\* ------------------------------------------------------------------------
\* Properties of document processing
\* ------------------------------------------------------------------------
\* documents of the batch on which entity detection failed
FailedDocuments ==
    {i \in 1..Len(documents) : ~documents[i].cached /\ DetectAll(documents[i].chunks).exc # "none"}

\* C11: when entity detection fails on a chunk of a document, nothing of that
\* document reaches the clean store or the cache, and the processing step
\* ends in an error for its caller instead of returning normally.
C11_DetectionFailureSurfaces ==
    (proc.pc = "done" /\ proc.claim_uuid \in ClaimIds /\ proc.next > Len(documents)
       /\ FailedDocuments # {})
    => /\ \A x \in clean_extracts : x.doc_id \notin FailedDocuments
       /\ doc_cache \cap FailedDocuments = {}
       /\ proc.outcome = "raised"

\* ------------------------------------------------------------------------
\* Properties of the decision sequencing
\* ------------------------------------------------------------------------
\* C21: the fraud agent runs before the adjudication agent; when the fraud
\* result carries a deny/review value or a fraud score above 0.7 the
\* adjudication agent is not invoked and the outcome is DENY or REVIEW with
\* payout 0; otherwise the adjudication agent runs once and its decision is
\* the outcome.
C21_FraudGatesAdjudication ==
    LET fraud_result == dec.fraud_result
        flagged == \/ fraud_result.decision \in {"DENY", "REVIEW"}
                   \/ fraud_result.recommendation \in {"DENY", "REVIEW"}
                   \/ (fraud_result.fraud_score.kind = "num"
                         /\ fraud_result.fraud_score.val > 70)
    IN /\ dec.adjudication.call # "none" => dec.fraud.call # "none"
       /\ (dec.pc = "done" /\ dec.fraud.call # "none")
            => IF flagged
               THEN /\ dec.adjudication.call = "none"
                    /\ dec.outcome.kind = "returned"
                    /\ dec.outcome.decision \in {"DENY", "REVIEW"}
                    /\ dec.outcome.payout_gbp = 0
               ELSE /\ dec.adjudication.call # "none"
                    /\ dec.outcome.decision = GetOr(dec.adj_result.decision, "REVIEW")

\* ------------------------------------------------------------------------
\* Properties of the orchestration state machine
\* ------------------------------------------------------------------------
\* C22: a run in which a step failed ends with the claim's status
\* ERROR_REVIEW, never with the status the claim had before the failure.
C22_FailedRunEndsInErrorReview ==
    (wf.pc \in {"failed", "succeeded"} /\ wf.failed_in # "none")
    => claims[wf.claim_uuid].status = "ERROR_REVIEW"

\* ------------------------------------------------------------------------
\* Properties of the agent handler's results and retries
\* ------------------------------------------------------------------------
\* C23: every result the agent handler returns, from a validated attempt or
\* from the fallback, carries a decision that is an upper-case member of the
\* allow-list.
C23_ReturnedDecisionAllowed ==
    agent.pc = "returned" => agent.result.decision \in _ALLOWED_DECISIONS

C23_Witness ==
    /\ agent.pc = "returned"
    /\ agent.last_error = NULL
    /\ agent.failed = 1
    /\ agent.result.decision = "APPROVE"

\* C24: for every agent type, a parsed result whose structured findings are
\* present but not an object fails validation: the handler never returns the
\* result of an attempt whose first valid candidate had such findings.
C24_NonObjectFindingsRejected ==
    (agent.pc = "returned" /\ agent.last_error = NULL)
    => agent.accepted.structured_findings.kind # "nonobject"

\* C25: the model is invoked at least once and at most parse_retries + 1
\* times in a handler call; every invocation after the first follows a failed
\* attempt, and none follows an attempt that parsed and validated.
C25_InvocationsWithinBudget ==
    /\ [](agent.pc \in {"returned", "raised"}
            => (agent.invocations >= 1 /\ agent.invocations <= parse_retries + 1))
    /\ [][agent.invocations' > agent.invocations
            => (/\ agent.invocations' = agent.invocations + 1
                /\ agent.failed = agent.invocations
                /\ (agent.invocations > 0 => agent.last_error # NULL))]_vars

C25_Witness ==
    /\ agent.pc = "returned"
    /\ parse_retries = 2
    /\ agent.invocations = 2
    /\ agent.failed = 1
    /\ agent.last_error = NULL

\* ------------------------------------------------------------------------
\* Properties of prompt assembly
\* ------------------------------------------------------------------------
\* the template with each placeholder piece replaced by its context value,
\* in one pass
LiteralSubstitution(template, context, n) ==
    Flatten([i \in 1..Len(template) |->
               IF \E j \in 1..n : template[i] = PlaceholderOf(ContextKeys[j])
               THEN context[CHOOSE j \in 1..n : template[i] = PlaceholderOf(ContextKeys[j])]
               ELSE <<template[i]>>])

\* C26: the formatted prompt is the template with each named placeholder
\* replaced literally by its context value; placeholder text inside a
\* substituted value stays verbatim.
C26_SubstitutedValuesNotReinterpreted ==
    prompt.pc = "formatted"
    => prompt.formatted_prompt =
         LiteralSubstitution(prompt.system_prompt, prompt.context_data, prompt.keys)

\* ------------------------------------------------------------------------
\* Properties of the assembled bundles
\* ------------------------------------------------------------------------
\* the length of the first i documents of a sequence of listing indices
RECURSIVE LenOfFirst(_, _)
LenOfFirst(docs, i) ==
    IF i = 0 THEN 0 ELSE LenOfFirst(docs, i - 1) + extracts[docs[i]].chunk_len

\* C27: the optimized bundle holds whole documents in priority order, taken
\* greedily until one would exceed the character budget; that document and
\* every later one in priority order are left out, and the included total
\* stays within the budget.
C27_GreedyPrefixWithinBudget ==
    (asm.pc = "done" /\ asm.result = "success")
    => LET sorted_docs == SortedDocs(extracts, Fetched(extracts, execution_start_time))
           n == Len(asm.optimized)
       IN /\ asm.optimized = SubSeq(sorted_docs, 1, n)
          /\ LenOfFirst(asm.optimized, n) <= limit
          /\ n < Len(sorted_docs) => LenOfFirst(sorted_docs, n + 1) >= limit

\* the listing indices a sequence of indices holds
IndicesIn(docs) == {docs[i] : i \in 1..Len(docs)}

\* C28: when assemble is given a workflow start time, no extract older than
\* it is in the full bundle, the optimized bundle or the timeline, or counts
\* towards the status.
C28_StaleExtractsExcluded ==
    (asm.pc = "done" /\ asm.result = "success" /\ execution_start_time # 0)
    => LET stale == {i \in 1..Len(extracts) :
                        extracts[i].LastModified < execution_start_time}
           fresh == (1..Len(extracts)) \ stale
       IN /\ IndicesIn(asm.documents) \cap stale = {}
          /\ IndicesIn(asm.optimized) \cap stale = {}
          /\ IndicesIn(asm.timeline) \cap stale = {}
          /\ asm.context_status =
               check_min_viable_context(extracts, {i \in fresh : ~extracts[i].folder})

C28_Witness ==
    /\ asm.pc = "done"
    /\ asm.result = "success"
    /\ execution_start_time = 2
    /\ Len(extracts) = 2
    /\ extracts[1].LastModified = 1
    /\ extracts[2].LastModified = 2
    /\ ~extracts[2].folder
    /\ asm.documents = <<2>>
    /\ asm.optimized = <<2>>
    /\ asm.timeline = <<2>>

\* C29: when no extracted document exists for the claim, assemble ends with
\* the guard error and writes neither a bundle nor the claim record.
C29_NoExtractsFailsFast ==
    (asm.pc = "done" /\ asm.claim_uuid \in ClaimIds
       /\ \A i \in 1..Len(extracts) : extracts[i].folder)
    => /\ asm.result = "ValueError: Guardrail"
       /\ bundles = {}
       /\ claims[asm.claim_uuid].context_bundle_s3_key = NULL

\* ------------------------------------------------------------------------
\* Properties of response parsing
\* ------------------------------------------------------------------------
\* C30: the parser tries the contents of the code fences in order and then
\* the outermost {...} span, and returns the first that is a valid object;
\* a valid fenced object wins over a different valid outermost span.
C30_FencedCandidatesFirst ==
    fn.op = "parse_text"
    => LET fenced == FenceMatches(fn.completion, 1)
           outermost == OutermostSpan(fn.completion)
           valid == {i \in 1..Len(fenced) : JsonLoads(fenced[i]).valid}
       IN IF valid # {}
          THEN /\ fn.exc = "none"
               /\ fn.result = JsonLoads(fenced[CHOOSE i \in valid : \A k \in valid : i <= k]).obj
          ELSE IF outermost # <<>> /\ JsonLoads(outermost[1]).valid
          THEN fn.exc = "none" /\ fn.result = JsonLoads(outermost[1]).obj
          ELSE fn.exc = "ValueError"

C30_Witness ==
    /\ fn.op = "parse_text"
    /\ fn.completion = <<"{W", "fence", "{}", "fence", "W}">>
    /\ Len(fn.text) = 2
    /\ fn.text[2].valid
    /\ fn.text[2].obj = WrapperObject
    /\ fn.exc = "none"
    /\ fn.result = NoObject

\* ------------------------------------------------------------------------
\* Properties of the closing write
\* ------------------------------------------------------------------------
\* a step that turns claim c's status into CLOSED_PAID
BecomesClosedPaid(c) ==
    claims[c].status # "CLOSED_PAID" /\ claims'[c].status = "CLOSED_PAID"

C33_ClosedPaidIsAbsorbing ==
    [][\A c \in ClaimIds :
          claims[c].status = "CLOSED_PAID"
          => /\ claims'[c].status = "CLOSED_PAID"
             /\ PositiveTransfers(c)' = PositiveTransfers(c)]_vars

\* ------------------------------------------------------------------------
\* Properties of the approved path
\* ------------------------------------------------------------------------
\* C34: with fair delivery and no failures, a run whose decision is an
\* approval is eventually followed by the claim's status CLOSED_PAID.
C34_ApprovedRunIsEventuallyPaid ==
    \A c \in ClaimIds :
       (wf.claim_uuid = c /\ wf.pc = "succeeded" /\ wf.recommendation = "APPROVE")
       ~> (claims[c].status = "CLOSED_PAID")

\* ------------------------------------------------------------------------
\* Properties of one run's extraction and assembly
\* ------------------------------------------------------------------------
\* documents for which the run's extraction step reported EXTRACTED
ReportedExtracted ==
    {i \in 1..Len(documents) : i < proc.next /\ i \notin proc.errors}

\* C35: every document the run's extraction step reported as EXTRACTED, from
\* a fresh extraction or from the cache, is in the full bundle the same run
\* assembles.
C35_ExtractedDocumentsAreBundled ==
    (asm.pc = "done" /\ asm.result = "success")
    => \A i \in ReportedExtracted :
          \E k \in 1..Len(asm.documents) : extracts[asm.documents[k]].doc_id = i

\* ------------------------------------------------------------------------
\* Properties of the idempotency check
\* ------------------------------------------------------------------------
CallsReturning(h, result) ==
    {k \in Callers : idem.calls[k].req_hash = h /\ idem.calls[k].result = result}

\* C36: with the idempotency table configured, among the calls made with one
\* request hash before its entry expires at most one returns True, and as
\* soon as any call has returned exactly one has returned True and every
\* other returned call has returned False.
C36_ExactlyOneNewRequest ==
    \A h \in RequestHashes :
       (idem.configured /\ h \notin idem.expired)
       => /\ Cardinality(CallsReturning(h, "True")) <= 1
          /\ (CallsReturning(h, "True") \cup CallsReturning(h, "False")) # {}
               => Cardinality(CallsReturning(h, "True")) = 1
          /\ CallsReturning(h, "True") # {} <=> h \in idem.table

C36_Witness ==
    /\ idem.configured
    /\ idem.expired = {}
    /\ Cardinality(CallsReturning("h1", "True")) = 1
    /\ Cardinality(CallsReturning("h1", "False")) = MaxCallers - 1

\* ------------------------------------------------------------------------
\* Properties of the chunking loop
\* ------------------------------------------------------------------------
\* C37: with an overlap smaller than the chunk size every iteration that
\* stays in the loop moves the start offset forward, the call returns, and
\* for a text that is not empty the last chunk ends at the end of the text.
C37_ChunkingTerminates ==
    /\ [][(chunker.pc = "loop" /\ chunker'.pc = "loop")
            => chunker'.start > chunker.start]_vars
    /\ [](chunker.pc = "done" /\ Len(chunker.text) > 0
            => LET last == chunker.chunks[Len(chunker.chunks)]
               IN last.offset + Len(last.text) = Len(chunker.text))
    /\ <>(chunker.pc = "done")

C37_Witness ==
    /\ chunker.pc = "done"
    /\ chunker.f = "chunk_text"
    /\ chunker.overlap = chunker.size - 1
    /\ chunker.size = 4
    /\ Len(chunker.text) = 6
    /\ Len(chunker.chunks) = 3
    /\ chunker.chunks[3].offset = 2

====
